---- MODULE Spec2Model ----
(***************************************************************************)
(* A model of stream-7z: the archive session façade (lib/archive.go), the  *)
(* format handlers (lib/formats), the range transport (lib/rangehttp) and  *)
(* the HTTP gateway (cmd/server/handlers).                                 *)
(*                                                                         *)
(* Text is modelled as a sequence of one-character strings, so prefix,     *)
(* suffix and substring tests are computed and not assumed.                *)
(***************************************************************************)
EXTENDS Integers, Sequences, FiniteSets, Bags, TLC

(***************************************************************************)
(* Go's strings package, on sequences of characters.                       *)
(***************************************************************************)
Slash == "/"
Dot == "."

HasPrefix(s, p) ==
    /\ Len(p) <= Len(s)
    /\ SubSeq(s, 1, Len(p)) = p

HasSuffix(s, p) ==
    /\ Len(p) <= Len(s)
    /\ SubSeq(s, Len(s) - Len(p) + 1, Len(s)) = p

TrimPrefix(s, p) == IF HasPrefix(s, p) THEN SubSeq(s, Len(p) + 1, Len(s)) ELSE s

TrimSuffix(s, p) == IF HasSuffix(s, p) THEN SubSeq(s, 1, Len(s) - Len(p)) ELSE s

Contains(s, sub) ==
    \E i \in 0..(Len(s) - Len(sub)) : SubSeq(s, i + 1, i + Len(sub)) = sub

(***************************************************************************)
(* Go's path.Clean.  Segments splits on "/", CleanSegs applies the rules   *)
(* of path.Clean to the segments from left to right, Join puts the result  *)
(* back together.                                                          *)
(***************************************************************************)
RECURSIVE Segments(_)
Segments(s) ==
    IF \A i \in 1..Len(s) : s[i] # Slash
    THEN <<s>>
    ELSE LET k == CHOOSE i \in 1..Len(s) :
                      /\ s[i] = Slash
                      /\ \A j \in 1..(i - 1) : s[j] # Slash
         IN  <<SubSeq(s, 1, k - 1)>> \o Segments(SubSeq(s, k + 1, Len(s)))

RECURSIVE Join(_)
Join(segs) ==
    IF Len(segs) = 0 THEN <<>>
    ELSE IF Len(segs) = 1 THEN segs[1]
    ELSE segs[1] \o <<Slash>> \o Join(Tail(segs))

DotDot == <<Dot, Dot>>

RECURSIVE CleanSegs(_, _, _)
CleanSegs(segs, out, rooted) ==
    IF Len(segs) = 0 THEN out
    ELSE LET seg == Head(segs)
             rest == Tail(segs)
         IN  IF seg = <<>> \/ seg = <<Dot>>
             THEN CleanSegs(rest, out, rooted)
             ELSE IF seg = DotDot
             THEN IF Len(out) > 0 /\ out[Len(out)] # DotDot
                  THEN CleanSegs(rest, SubSeq(out, 1, Len(out) - 1), rooted)
                  ELSE IF rooted
                  THEN CleanSegs(rest, out, rooted)
                  ELSE CleanSegs(rest, Append(out, seg), rooted)
             ELSE CleanSegs(rest, Append(out, seg), rooted)

PathClean(p) ==
    LET rooted == Len(p) > 0 /\ p[1] = Slash
        body == Join(CleanSegs(Segments(p), <<>>, rooted))
        r == IF rooted THEN <<Slash>> \o body ELSE body
    IN  IF r = <<>> THEN <<Dot>> ELSE r

(***************************************************************************)
(* lib/utils: NormalizePath and IsValidPath.                               *)
(***************************************************************************)
NormalizePathNoClean(p) == TrimPrefix(TrimPrefix(p, <<Slash>>), <<Slash>>)

NormalizePath(p) == TrimPrefix(PathClean(TrimPrefix(p, <<Slash>>)), <<Slash>>)

IsValidPathNormalizedOnly(p) ==
    ~Contains(NormalizePath(p), DotDot)

IsValidPath(p) ==
    /\ ~Contains(p, DotDot)
    /\ ~Contains(NormalizePath(p), DotDot)

(***************************************************************************)
(* Archives.  An archive is the sequence of its members in container       *)
(* order; the origin is immutable for the lifetime of a session.           *)
(***************************************************************************)
MaxEntries == 2

Formats == {"zip", "rar", "7z", "tar"}

NoPassword == <<>>
SomePassword == <<"p", "w">>

\* Member names: a top-level file, a directory, members one and two levels
\* down, a name with a leading slash and a file name with two dots in it.
EntryNames ==
    { <<"a">>,
      <<"d", "/">>,
      <<"d", "/", "a">>,
      <<"d", "/", "d", "/", "a">>,
      <<"/", "a">>,
      <<"a", ".", ".", "a">> }

\* A member is a name with its uncompressed size.  Directories end in "/"
\* and have size 0; the file at position i holds i bytes, so that two
\* members never share a size.
Member(names, i) ==
    LET dir == HasSuffix(names[i], <<Slash>>)
    IN  [name |-> names[i], size |-> IF dir THEN 0 ELSE i, isDir |-> dir]

ArchiveOf(names) == [i \in 1..Len(names) |-> Member(names, i)]

Archives == { ArchiveOf(names) : names \in UNION { [1..k -> EntryNames] : k \in 0..MaxEntries } }

\* The paths callers ask for.
InnerPaths ==
    { <<>>, <<Slash>>, <<"d">>, <<Dot>> }

ExtractPaths ==
    (EntryNames \ { <<"d", "/">> }) \cup { <<"z">>, <<"d", "/", ".", ".", "/", "a">> }

(***************************************************************************)
(* Errors of lib/formats and lib/utils, by the identity of the error       *)
(* value.                                                                  *)
(***************************************************************************)
NoError == "nil"
ErrPasswordRequired == "ErrPasswordRequired"
ErrPasswordIncorrect == "ErrPasswordIncorrect"
ErrFileNotFound == "ErrFileNotFound"
ErrPathTraversal == "ErrPathTraversal"
ErrTarEncryption == "TAR format does not support encryption"

(***************************************************************************)
(* lib/utils/errors.go.  The package has error values of its own, other    *)
(* values than the ones lib/formats returns; IsPasswordError and           *)
(* IsNotFoundError compare with errors.Is, which follows Unwrap.  The      *)
(* errors of lib/formats are *FormatError values with no Cause.            *)
(***************************************************************************)
UtilsErrWrongPassword == "utils.ErrWrongPassword"
UtilsErrPasswordRequired == "utils.ErrPasswordRequired"
UtilsErrFileNotFound == "utils.ErrFileNotFound"

NoCause == "no cause"

\* FormatError.Unwrap; the errors.New values of lib/utils wrap nothing.
Unwrap(err) == NoCause

RECURSIVE ErrorsIs(_, _)
ErrorsIs(err, target) ==
    IF err = target THEN TRUE
    ELSE IF Unwrap(err) = NoCause THEN FALSE
    ELSE ErrorsIs(Unwrap(err), target)

IsPasswordError(err) ==
    ErrorsIs(err, UtilsErrWrongPassword) \/ ErrorsIs(err, UtilsErrPasswordRequired)

IsNotFoundError(err) == ErrorsIs(err, UtilsErrFileNotFound)

(***************************************************************************)
(* Format handlers: GetInfo and ListFiles.                                 *)
(***************************************************************************)
\* zip.go decodeName: member names are ASCII here, and every decoder of
\* the closed set maps ASCII text to itself.
decodeName(name) == name

FileEntry(m, zipStyle) ==
    [ Path  |-> IF zipStyle THEN decodeName(m.name) ELSE m.name,
      Size  |-> m.size,
      IsDir |-> IF zipStyle
                THEN HasSuffix(decodeName(m.name), <<Slash>>) \/ m.isDir
                ELSE m.isDir ]

RECURSIVE SelectEntries(_, _, _)
SelectEntries(ents, kept, zipStyle) ==
    IF Len(ents) = 0 THEN <<>>
    ELSE (IF Head(kept) THEN <<FileEntry(Head(ents), zipStyle)>> ELSE <<>>)
         \o SelectEntries(Tail(ents), Tail(kept), zipStyle)

RECURSIVE SumSizes(_)
SumSizes(files) ==
    IF Len(files) = 0 THEN 0
    ELSE (IF Head(files).IsDir THEN 0 ELSE Head(files).Size) + SumSizes(Tail(files))

GetInfo(fmt, ents, password) ==
    IF fmt = "tar" /\ password # NoPassword
    THEN [err |-> ErrTarEncryption, Files |-> <<>>, TotalFiles |-> 0, TotalSize |-> 0]
    ELSE LET all == [i \in 1..Len(ents) |-> TRUE]
             files == SelectEntries(ents, all, fmt = "zip")
         IN  [ err        |-> NoError,
               Files      |-> files,
               TotalFiles |-> Cardinality({i \in 1..Len(files) : ~files[i].IsDir}),
               TotalSize  |-> SumSizes(files) ]

\* "只列出第一层": top level of the archive.
IsTopLevel(normalizedName) ==
    ~Contains(TrimSuffix(normalizedName, <<Slash>>), <<Slash>>)

\* Direct children of the directory whose prefix is innerPath.
IsDirectChild(normalizedName, innerPath) ==
    /\ HasPrefix(normalizedName, innerPath)
    /\ ~Contains(TrimSuffix(TrimPrefix(normalizedName, innerPath), <<Slash>>), <<Slash>>)

ZipListFiles(ents, innerPathArg) ==
    LET listAll == innerPathArg = <<>>
        isRoot == innerPathArg = <<Slash>>
        norm == NormalizePath(innerPathArg)
        inner0 == IF norm = <<Dot>> THEN <<>> ELSE norm
        innerPath == IF inner0 # <<>> /\ ~listAll /\ ~isRoot
                     THEN inner0 \o <<Slash>> ELSE inner0
        keep(m) ==
            LET normalizedName == NormalizePath(decodeName(m.name))
            IN  IF listAll THEN TRUE
                ELSE IF isRoot THEN IsTopLevel(normalizedName)
                ELSE IsDirectChild(normalizedName, innerPath)
    IN  [err |-> NoError,
         files |-> SelectEntries(ents, [i \in 1..Len(ents) |-> keep(ents[i])], TRUE)]

\* The filter shared, line for line, by rar.go, sevenzip.go and tar.go.
StreamListFiles(ents, innerPathArg) ==
    LET norm == NormalizePath(innerPathArg)
        innerPath == IF norm # <<>> THEN norm \o <<Slash>> ELSE norm
        keep(m) ==
            LET normalizedName == NormalizePath(m.name)
            IN  IF innerPath # <<>>
                THEN IF innerPath = <<Slash>>
                     THEN IsTopLevel(normalizedName)
                     ELSE IsDirectChild(normalizedName, innerPath)
                ELSE TRUE
    IN  [err |-> NoError,
         files |-> SelectEntries(ents, [i \in 1..Len(ents) |-> keep(ents[i])], FALSE)]

RarListFiles(ents, innerPathArg) == StreamListFiles(ents, innerPathArg)

SevenZipListFiles(ents, innerPathArg) == StreamListFiles(ents, innerPathArg)

TarListFiles(ents, innerPathArg, password) ==
    IF password # NoPassword
    THEN [err |-> ErrTarEncryption, files |-> <<>>]
    ELSE StreamListFiles(ents, innerPathArg)

ListFiles(fmt, ents, innerPathArg, password) ==
    CASE fmt = "zip" -> ZipListFiles(ents, innerPathArg)
      [] fmt = "rar" -> RarListFiles(ents, innerPathArg)
      [] fmt = "7z"  -> SevenZipListFiles(ents, innerPathArg)
      [] fmt = "tar" -> TarListFiles(ents, innerPathArg, password)

(***************************************************************************)
(* Format handlers: ExtractFile.  Every handler normalizes the requested   *)
(* path and hands out the stream of the first member whose normalized name *)
(* equals it; the stream yields that member's bytes.                       *)
(***************************************************************************)
NoMember == 0

FirstMatch(ents, filePath) ==
    LET hits == {i \in 1..Len(ents) : NormalizePath(ents[i].name) = filePath}
    IN  IF hits = {} THEN NoMember
        ELSE CHOOSE i \in hits : \A j \in hits : i <= j

FormatExtractFile(fmt, ents, filePathArg, password) ==
    IF fmt = "tar" /\ password # NoPassword
    THEN [err |-> ErrTarEncryption, member |-> NoMember, size |-> 0]
    ELSE LET filePath == NormalizePath(filePathArg)
             i == FirstMatch(ents, filePath)
         IN  IF i = NoMember
             THEN [err |-> ErrFileNotFound, member |-> NoMember, size |-> 0]
             ELSE [err |-> NoError, member |-> i, size |-> ents[i].size]

\* lib/archive.go Archive.ExtractFile: the path guard, then the handler.
ArchiveExtractFile(fmt, ents, filePathArg, password) ==
    IF ~IsValidPath(filePathArg)
    THEN [err |-> ErrPathTraversal, member |-> NoMember, size |-> 0]
    ELSE FormatExtractFile(fmt, ents, filePathArg, password)

\* Bytes a caller reads from the returned stream up to end-of-input.
StreamLength(ents, r) == IF r.member = NoMember THEN 0 ELSE ents[r.member].size

(***************************************************************************)
(* Error texts, as Go's Error() prints them, and the substrings the HTTP   *)
(* handlers look for in them.                                              *)
(***************************************************************************)
\* "password required"  (formats.ErrPasswordRequired)
TextPasswordRequired ==
    <<"p", "a", "s", "s", "w", "o", "r", "d", " ", "r", "e", "q", "u", "i",
      "r", "e", "d">>

\* "incorrect password"  (formats.ErrPasswordIncorrect)
TextPasswordIncorrect ==
    <<"i", "n", "c", "o", "r", "r", "e", "c", "t", " ", "p", "a", "s", "s",
      "w", "o", "r", "d">>

\* "file not found in archive"  (formats.ErrFileNotFound)
TextFileNotFound ==
    <<"f", "i", "l", "e", " ", "n", "o", "t", " ", "f", "o", "u", "n", "d",
      " ", "i", "n", " ", "a", "r", "c", "h", "i", "v", "e">>

\* "path traversal detected"  (utils.ErrPathTraversal)
TextPathTraversal ==
    <<"p", "a", "t", "h", " ", "t", "r", "a", "v", "e", "r", "s", "a", "l",
      " ", "d", "e", "t", "e", "c", "t", "e", "d">>

\* "TAR format does not support encryption"  (tar.go FormatError)
TextTarEncryption ==
    <<"T", "A", "R", " ", "f", "o", "r", "m", "a", "t", " ", "d", "o", "e",
      "s", " ", "n", "o", "t", " ", "s", "u", "p", "p", "o", "r", "t", " ",
      "e", "n", "c", "r", "y", "p", "t", "i", "o", "n">>

\* "unable to detect archive format: unsupported archive format"  (NewArchive, detection failed)
TextFormatNotDetected ==
    <<"u", "n", "a", "b", "l", "e", " ", "t", "o", " ", "d", "e", "t", "e",
      "c", "t", " ", "a", "r", "c", "h", "i", "v", "e", " ", "f", "o", "r",
      "m", "a", "t", ":", " ", "u", "n", "s", "u", "p", "p", "o", "r", "t",
      "e", "d", " ", "a", "r", "c", "h", "i", "v", "e", " ", "f", "o", "r",
      "m", "a", "t">>

\* "failed to get file information: "  (NewArchive, HEAD failed)
TextFileInformationPrefix ==
    <<"f", "a", "i", "l", "e", "d", " ", "t", "o", " ", "g", "e", "t", " ",
      "f", "i", "l", "e", " ", "i", "n", "f", "o", "r", "m", "a", "t", "i",
      "o", "n", ":", " ">>

\* "HEAD request failed: "  (HeadRequest, transport error)
TextHeadRequestFailedPrefix ==
    <<"H", "E", "A", "D", " ", "r", "e", "q", "u", "e", "s", "t", " ", "f",
      "a", "i", "l", "e", "d", ":", " ">>

\* "unexpected status code: 404"  (HeadRequest, status other than 200)
TextUnexpectedStatus ==
    <<"u", "n", "e", "x", "p", "e", "c", "t", "e", "d", " ", "s", "t", "a",
      "t", "u", "s", " ", "c", "o", "d", "e", ":", " ", "4", "0", "4">>

\* "http://h/" and the last segment of the URL's path
RequestURL(name) ==
    <<"h", "t", "t", "p", ":", "/", "/", "h", "/">> \o name

\* "Head "<url>": dial tcp: connection refused"  (net/http transport error,
\* url.Error: the operation, the quoted URL, the cause)
TextConnectionRefused(url) ==
    <<"H", "e", "a", "d", " ", "\"">> \o url \o
    <<"\"", ":", " ", "d", "i", "a", "l", " ", "t", "c",
      "p", ":", " ", "c", "o", "n", "n", "e", "c", "t", "i", "o", "n", " ",
      "r", "e", "f", "u", "s", "e", "d">>

\* "password"
KeyPassword ==
    <<"p", "a", "s", "s", "w", "o", "r", "d">>

\* "not found"
KeyNotFound ==
    <<"n", "o", "t", " ", "f", "o", "u", "n", "d">>

\* "unsupported"
KeyUnsupported ==
    <<"u", "n", "s", "u", "p", "p", "o", "r", "t", "e", "d">>

\* "format"
KeyFormat ==
    <<"f", "o", "r", "m", "a", "t">>

\* "URL"
KeyURL ==
    <<"U", "R", "L">>

\* "request failed"
KeyRequestFailed ==
    <<"r", "e", "q", "u", "e", "s", "t", " ", "f", "a", "i", "l", "e", "d">>

\* "path traversal"
KeyPathTraversal ==
    <<"p", "a", "t", "h", " ", "t", "r", "a", "v", "e", "r", "s", "a", "l">>

\* err.Error() of the errors the library returns.
ErrorText(err) ==
    CASE err = ErrPasswordRequired  -> TextPasswordRequired
      [] err = ErrPasswordIncorrect -> TextPasswordIncorrect
      [] err = ErrFileNotFound      -> TextFileNotFound
      [] err = ErrPathTraversal     -> TextPathTraversal
      [] err = ErrTarEncryption     -> TextTarEncryption

(***************************************************************************)
(* rangehttp.Client.HeadRequest and the wrapping NewArchive gives its      *)
(* error.  The origin answers the probe with 200, with another status, or  *)
(* not at all.                                                             *)
(***************************************************************************)
HeadOutcomes == {"200", "status", "neterr"}

HeadRequestError(outcome, url) ==
    CASE outcome = "neterr" -> TextHeadRequestFailedPrefix \o TextConnectionRefused(url)
      [] outcome = "status" -> TextUnexpectedStatus

NewArchiveHeadError(outcome, url) ==
    TextFileInformationPrefix \o HeadRequestError(outcome, url)

(***************************************************************************)
(* The error classification of the three HTTP handlers.                    *)
(***************************************************************************)
PasswordCode(hasPassword) == IF hasPassword THEN "WRONG_PASSWORD" ELSE "PASSWORD_REQUIRED"

IsFormatText(errMsg) == Contains(errMsg, KeyUnsupported) \/ Contains(errMsg, KeyFormat)

IsURLText(errMsg) == Contains(errMsg, KeyURL) \/ Contains(errMsg, KeyRequestFailed)

InfoErrorCode(errMsg, hasPassword) ==
    IF Contains(errMsg, KeyPassword) THEN PasswordCode(hasPassword)
    ELSE IF IsFormatText(errMsg) THEN "UNSUPPORTED_FORMAT"
    ELSE IF IsURLText(errMsg) THEN "URL_ERROR"
    ELSE "INTERNAL_ERROR"

ListErrorCode(errMsg, hasPassword) ==
    IF Contains(errMsg, KeyPassword) THEN PasswordCode(hasPassword)
    ELSE IF Contains(errMsg, KeyNotFound) THEN "PATH_NOT_FOUND"
    ELSE IF IsFormatText(errMsg) THEN "UNSUPPORTED_FORMAT"
    ELSE IF IsURLText(errMsg) THEN "URL_ERROR"
    ELSE "INTERNAL_ERROR"

ExtractErrorCode(errMsg, hasPassword) ==
    IF Contains(errMsg, KeyPassword) THEN PasswordCode(hasPassword)
    ELSE IF Contains(errMsg, KeyNotFound) THEN "FILE_NOT_FOUND"
    ELSE IF IsFormatText(errMsg) THEN "UNSUPPORTED_FORMAT"
    ELSE IF IsURLText(errMsg) THEN "URL_ERROR"
    ELSE IF Contains(errMsg, KeyPathTraversal) THEN "INVALID_PATH"
    ELSE "INTERNAL_ERROR"

Endpoints == {"info", "list", "extract"}

ErrorCode(endpoint, errMsg, hasPassword) ==
    CASE endpoint = "info"    -> InfoErrorCode(errMsg, hasPassword)
      [] endpoint = "list"    -> ListErrorCode(errMsg, hasPassword)
      [] endpoint = "extract" -> ExtractErrorCode(errMsg, hasPassword)

(***************************************************************************)
(* formats.Registry.DetectFormat.  The archive's leading bytes carry the   *)
(* magic of its own format.  Detect costs one ReadAt, and TarFormat.Detect *)
(* a second one (offset 257) when the first bytes are no compression       *)
(* wrapper.  The registry is a Go map, so the order of the second loop is  *)
(* any order.                                                              *)
(***************************************************************************)
DetectReads(f) == IF f = "tar" THEN 2 ELSE 1

Detect(f, fmt) == f = fmt

RECURSIVE ReadsUntilDetected(_, _)
ReadsUntilDetected(order, fmt) ==
    IF Len(order) = 0 THEN 0
    ELSE DetectReads(Head(order))
         + (IF Detect(Head(order), fmt) THEN 0 ELSE ReadsUntilDetected(Tail(order), fmt))

FormatOrders ==
    { o \in [1..Cardinality(Formats) -> Formats] :
          \A i, j \in DOMAIN o : i # j => o[i] # o[j] }

\* ext is the format whose extension list holds the URL's extension, or
\* "none".
DetectFormatReads(order, ext, fmt) ==
    IF ext \in Formats /\ Detect(ext, fmt)
    THEN DetectReads(ext)
    ELSE (IF ext \in Formats THEN DetectReads(ext) ELSE 0)
         + ReadsUntilDetected(order, fmt)

(***************************************************************************)
(* State.                                                                  *)
(***************************************************************************)
VARIABLES
    \* the origin's archive and one session on it (lib/archive.go)
    format,       \* the handler NewArchive selected
    archive,      \* the members of the archive
    password,     \* the password the caller passes to every call
    info,         \* result of the last GetInfo
    listing,      \* result of the last ListFiles
    extracted,    \* result of the last ExtractFile
    \* one request to the HTTP API (cmd/server/handlers)
    req,          \* the request: endpoint, path, URL extension
    pc,           \* where the request is
    headOutcome,  \* how the origin answers the HEAD probe
    heads,        \* HEAD requests sent to the origin for the request
    gets,         \* range GETs sent to the origin for the request
    opGets,       \* range GETs sent by the operation on the open session
    errMsg,       \* err.Error() of the failure, if any
    code,         \* the code of the response
    \* IP allow-list
    ipLog,        \* decisions taken: request and verdict
    \* rate limiter
    now,          \* time.Now(), in ticks
    buckets,      \* RateLimiter.buckets
    admitLog,     \* when the limiter admitted requests, per limited client
    rateVerdict,  \* the last request through the limiter and its answer
    \* concurrency gate
    semaphore,    \* slots held in the channel
    gate,         \* where each request is with respect to the gate
    \* timeouts
    config,       \* the lib.Config given to NewArchive
    session,      \* deadline of the session token and of the HTTP client
    clock,        \* wall clock, in ticks
    lastReq,      \* the last range request of the session
    \* cancellation
    sessionKind,  \* the constructor that made the session
    ctxDone,      \* the contexts that are done
    readerClosed, \* RangeReader.closed
    reads,        \* the ReadAt calls of the session
    \* QuickExtract and the stream it returns
    quick,        \* the call, the session it made, the returned stream
    \* GetInfo on an archive with encrypted members
    probe,        \* the archive, the password, the ArchiveInfo returned
    \* RangeReader.ReadAt over an origin that honours or ignores Range
    rd,           \* the file, the call, one run per kind of answer
    \* utils.NormalizePath
    norm,         \* the path given and the path returned
    \* server configuration and API-key authentication
    authc,        \* the configuration, Validate's answer, the last request
    \* RangeReader.Close
    rclose,       \* what the calls of Close returned and changed
    \* the middleware chain of the API routes
    chain,        \* requests inside the handler, the last request's passage
    \* lib.Config.MaxFileSize
    sized,        \* the configuration, the origin's file size, NewArchive's answer
    \* Registry.DetectFormat
    det,          \* the bytes, the extension, the handlers each detection chose
    \* Handler.Info
    iresp         \* the origin, the two sessions of the request, the response

archiveVars == <<format, archive, password, info, listing, extracted>>
apiVars == <<req, pc, headOutcome, heads, gets, opGets, errMsg, code>>
ipVars == <<ipLog>>
rateVars == <<now, buckets, admitLog, rateVerdict>>
gateVars == <<semaphore, gate>>
timeVars == <<config, session, clock, lastReq>>

cancelVars == <<sessionKind, ctxDone, readerClosed, reads>>

baseVars == <<archiveVars, apiVars, ipVars, rateVars, gateVars, timeVars>>
closeVars == <<quick>>

encVars == <<probe>>

readVars == <<rd>>

pathVars == <<norm>>

secondVars == <<cancelVars, closeVars, encVars, readVars>>
authVars == <<authc>>
rcloseVars == <<rclose>>
thirdVars == <<pathVars, authVars, rcloseVars>>

chainVars == <<chain>>
sizeVars == <<sized>>
detectVars == <<det>>
infoVars == <<iresp>>
fourthVars == <<chainVars, sizeVars, detectVars, infoVars>>
exceptChainVars == <<sizeVars, detectVars, infoVars>>
exceptSizeVars == <<baseVars, secondVars, thirdVars, chainVars, detectVars, infoVars>>
exceptDetectVars == <<baseVars, secondVars, thirdVars, chainVars, sizeVars, infoVars>>
exceptInfoVars == <<baseVars, secondVars, thirdVars, chainVars, sizeVars, detectVars>>

laterVars == <<secondVars, thirdVars, fourthVars>>
exceptCancelVars == <<baseVars, closeVars, encVars, readVars, thirdVars, fourthVars>>
exceptCloseVars == <<baseVars, cancelVars, encVars, readVars, thirdVars, fourthVars>>
exceptEncVars == <<baseVars, cancelVars, closeVars, readVars, thirdVars, fourthVars>>
exceptReadVars == <<baseVars, cancelVars, closeVars, encVars, thirdVars, fourthVars>>
exceptPathVars == <<baseVars, secondVars, authVars, rcloseVars, fourthVars>>
exceptAuthVars == <<baseVars, secondVars, pathVars, rcloseVars, fourthVars>>

vars == <<baseVars, laterVars>>

None == "none"

\* Before the first call of an operation its result slot holds NotCalled.
NotCalled == "not called"
NoInfo == [err |-> NotCalled, Files |-> <<>>, TotalFiles |-> 0, TotalSize |-> 0]
NoListing == [innerPath |-> <<>>, err |-> NotCalled, files |-> <<>>]
NoExtract == [filePath |-> <<>>, read |-> 0, err |-> NotCalled, member |-> 0, size |-> 0]

(***************************************************************************)
(* Operations of one session: Archive.GetInfo, ListFiles, ExtractFile.     *)
(***************************************************************************)
Passwords == {NoPassword, SomePassword}

ArchiveIdle ==
    /\ format = "zip"
    /\ archive = <<>>
    /\ password = NoPassword
    /\ info = NoInfo
    /\ listing = NoListing
    /\ extracted = NoExtract

ArchiveInit ==
    /\ format \in Formats
    /\ archive \in Archives
    /\ password = NoPassword
    /\ info = NoInfo
    /\ listing = NoListing
    /\ extracted = NoExtract

ArchiveGetInfo ==
    /\ info' = GetInfo(format, archive, password)
    /\ UNCHANGED <<format, archive, password, listing, extracted>>
    /\ UNCHANGED <<apiVars, ipVars, rateVars, gateVars, timeVars, laterVars>>

ArchiveListFiles(innerPath) ==
    /\ listing' = [innerPath |-> innerPath] @@ ListFiles(format, archive, innerPath, password)
    /\ UNCHANGED <<format, archive, password, info, extracted>>
    /\ UNCHANGED <<apiVars, ipVars, rateVars, gateVars, timeVars, laterVars>>

ArchiveExtract(filePath) ==
    /\ LET r == ArchiveExtractFile(format, archive, filePath, password)
       IN  extracted' = [filePath |-> filePath, read |-> StreamLength(archive, r)] @@ r
    /\ UNCHANGED <<format, archive, password, info, listing>>
    /\ UNCHANGED <<apiVars, ipVars, rateVars, gateVars, timeVars, laterVars>>

ArchiveNext ==
    \/ ArchiveGetInfo
    \/ \E innerPath \in InnerPaths : ArchiveListFiles(innerPath)
    \/ \E filePath \in ExtractPaths : ArchiveExtract(filePath)

(***************************************************************************)
(* One request to POST /api/info, /api/list or /api/extract, which runs    *)
(* lib.QuickInfo, QuickList or QuickExtract: NewArchive (HEAD probe, then  *)
(* format detection by range reads), the operation, the response.          *)
(***************************************************************************)
MaxHandlerReads == 2

ApiArchive == ArchiveOf(<< <<"a">>, <<"d", "/">>, <<"d", "/", "a">> >>)

\* The URLs of the archive: the last segment of the path is free text.
ApiURLs == { RequestURL(<<"a">>), RequestURL(KeyPassword) }

\* path is the innerPath of a list request and the file of an extract
\* request; ext is the format the URL's extension belongs to.
ApiRequests ==
    { [endpoint |-> "info", path |-> <<>>, ext |-> e, url |-> u] :
          e \in Formats \cup {None}, u \in ApiURLs }
    \cup
    { [endpoint |-> "list", path |-> p, ext |-> e, url |-> u] :
          p \in { <<>>, <<"d">>, <<"z">> }, e \in Formats \cup {None}, u \in ApiURLs }
    \cup
    { [endpoint |-> "extract", path |-> p, ext |-> e, url |-> u] :
          p \in { <<"a">>, <<"z">>, <<".", ".", "/", "a">> },
          e \in Formats \cup {None}, u \in ApiURLs }

NoApiRequest == [endpoint |-> None, path |-> <<>>, ext |-> None, url |-> <<>>]

ApiIdle ==
    /\ req = NoApiRequest
    /\ pc = "idle"
    /\ headOutcome = "200"
    /\ heads = 0
    /\ gets = 0
    /\ opGets = 0
    /\ errMsg = <<>>
    /\ code = None

ApiInit ==
    /\ format \in Formats
    /\ archive = ApiArchive
    /\ password \in Passwords
    /\ info = NoInfo
    /\ listing = NoListing
    /\ extracted = NoExtract
    /\ req \in ApiRequests
    /\ pc = "start"
    /\ headOutcome \in HeadOutcomes
    /\ heads = 0
    /\ gets = 0
    /\ opGets = 0
    /\ errMsg = <<>>
    /\ code = None

\* NewArchive, lines 69-74: the HEAD probe.
NewArchiveHead ==
    /\ pc = "start"
    /\ heads' = heads + 1
    /\ IF headOutcome = "200"
       THEN /\ pc' = "detect"
            /\ errMsg' = errMsg
       ELSE /\ pc' = "failed"
            /\ errMsg' = NewArchiveHeadError(headOutcome, req.url)
    /\ UNCHANGED <<req, headOutcome, gets, opGets, code>>
    /\ UNCHANGED <<archiveVars, ipVars, rateVars, gateVars, timeVars, laterVars>>

\* NewArchive, lines 93-100: format detection over the range reader.
NewArchiveDetect ==
    /\ pc = "detect"
    /\ \E order \in FormatOrders :
           gets' = gets + DetectFormatReads(order, req.ext, format)
    /\ pc' = "open"
    /\ UNCHANGED <<req, headOutcome, heads, opGets, errMsg, code>>
    /\ UNCHANGED <<archiveVars, ipVars, rateVars, gateVars, timeVars, laterVars>>

\* Range GETs of a handler call: none when it returns before its first
\* ReadAt, some otherwise.
HandlerReads(err) ==
    IF err \in {ErrPathTraversal, ErrTarEncryption} THEN {0} ELSE 1..MaxHandlerReads

\* The operation on the open session.
ApiFinish(err, k) ==
    /\ opGets' = opGets + k
    /\ gets' = gets + k
    /\ IF err = NoError
       THEN /\ pc' = "ok"
            /\ errMsg' = errMsg
       ELSE /\ pc' = "failed"
            /\ errMsg' = ErrorText(err)
    /\ UNCHANGED <<req, headOutcome, heads, code>>
    /\ UNCHANGED <<format, archive, password>>
    /\ UNCHANGED <<ipVars, rateVars, gateVars, timeVars, laterVars>>

QuickInfo ==
    /\ pc = "open"
    /\ req.endpoint = "info"
    /\ LET r == GetInfo(format, archive, password)
       IN  /\ info' = r
           /\ \E k \in HandlerReads(r.err) : ApiFinish(r.err, k)
    /\ UNCHANGED <<listing, extracted>>

QuickList ==
    /\ pc = "open"
    /\ req.endpoint = "list"
    /\ LET r == ListFiles(format, archive, req.path, password)
       IN  /\ listing' = [innerPath |-> req.path] @@ r
           /\ \E k \in HandlerReads(r.err) : ApiFinish(r.err, k)
    /\ UNCHANGED <<info, extracted>>

QuickExtract ==
    /\ pc = "open"
    /\ req.endpoint = "extract"
    /\ LET r == ArchiveExtractFile(format, archive, req.path, password)
       IN  /\ extracted' = [filePath |-> req.path, read |-> StreamLength(archive, r)] @@ r
           /\ \E k \in HandlerReads(r.err) : ApiFinish(r.err, k)
    /\ UNCHANGED <<info, listing>>

\* The handler's error branch: the code is chosen from the error's text.
RespondError ==
    /\ pc = "failed"
    /\ code' = ErrorCode(req.endpoint, errMsg, password # NoPassword)
    /\ pc' = "done"
    /\ UNCHANGED <<req, headOutcome, heads, gets, opGets, errMsg>>
    /\ UNCHANGED <<archiveVars, ipVars, rateVars, gateVars, timeVars, laterVars>>

\* The handler's success branch.  Handler.Info opens a second session to
\* read the format name: one more HEAD and one more detection.
RespondOK ==
    /\ pc = "ok"
    /\ code' = "OK"
    /\ pc' = "done"
    /\ IF req.endpoint = "info"
       THEN /\ heads' = heads + 1
            /\ \E order \in FormatOrders :
                   gets' = gets + DetectFormatReads(order, req.ext, format)
       ELSE UNCHANGED <<heads, gets>>
    /\ UNCHANGED <<req, headOutcome, opGets, errMsg>>
    /\ UNCHANGED <<archiveVars, ipVars, rateVars, gateVars, timeVars, laterVars>>

ApiNext ==
    \/ NewArchiveHead
    \/ NewArchiveDetect
    \/ QuickInfo
    \/ QuickList
    \/ QuickExtract
    \/ RespondError
    \/ RespondOK

(***************************************************************************)
(* IP allow-list (IPWhitelistMiddleware).  Addresses are IPBits wide; a    *)
(* CIDR block is a base address and the number of leading bits that count. *)
(* A header carries an address, text that is no address, or is absent.     *)
(***************************************************************************)
IPBits == 2

IPs == 0..(2^IPBits - 1)

\* Codes, outside IPs, of the header values that are no address.
NoHeader == -1
NotAnAddress == -2
HeaderValues == IPs \cup {NoHeader, NotAnAddress}

\* server.ip_whitelist.ips: one plain address and one block.
WhitelistIPs == {2^IPBits - 1}
WhitelistSubnets == { [base |-> 0, ones |-> 1] }

IPWhitelistEnabled == TRUE

SubnetContains(subnet, ip) ==
    LET host == 2^(IPBits - subnet.ones)
    IN  (ip \div host) = (subnet.base \div host)

\* list.go getClientIP: X-Forwarded-For, then X-Real-IP, then RemoteAddr.
getClientIP(r) ==
    IF r.xff # NoHeader THEN r.xff
    ELSE IF r.xri # NoHeader THEN r.xri
    ELSE r.peer

isIPAllowed(ipStr) ==
    \/ ipStr \in WhitelistIPs
    \/ /\ ipStr \in IPs
       /\ \E subnet \in WhitelistSubnets : SubnetContains(subnet, ipStr)

IPWhitelistHandler(r) ==
    IF ~IPWhitelistEnabled THEN "next"
    ELSE IF ~isIPAllowed(getClientIP(r)) THEN "IP_NOT_WHITELISTED"
    ELSE "next"

HttpRequests == [peer : IPs, xff : HeaderValues, xri : HeaderValues]

IpIdle == ipLog = <<>>

IpInit == ipLog = <<>>

\* One request through the allow-list; the log keeps the last decision.
IPWhitelistServe(r) ==
    /\ ipLog' = <<[request |-> r, verdict |-> IPWhitelistHandler(r)]>>
    /\ UNCHANGED <<archiveVars, apiVars, rateVars, gateVars, timeVars, laterVars>>

IpNext == \E r \in HttpRequests : IPWhitelistServe(r)

(***************************************************************************)
(* Rate limiter (RateLimiter.Handler, allow).  A minute has TicksPerMin    *)
(* ticks; tokens are counted in units of 1/TicksPerMin of a token, so the  *)
(* refill elapsed.Seconds() * requestsPerMin / 60 is exact.                *)
(***************************************************************************)
RequestsPerMin == 2
TicksPerMin == 6
MaxNow == 8
MaxAdmits == 4

OneToken == TicksPerMin
FullBucket == RequestsPerMin * OneToken

RateClients == {"client", "trusted"}
RateWhitelist == {"trusted"}

Min(a, b) == IF a < b THEN a ELSE b

\* The bucket of ip after the refill of allow, lines 301-314.
Refilled(bkts, ip, t) ==
    LET bucket == IF ip \in DOMAIN bkts
                  THEN bkts[ip]
                  ELSE [tokens |-> FullBucket, lastUpdate |-> t]
        tokensToAdd == (t - bucket.lastUpdate) * RequestsPerMin
    IN  [tokens |-> Min(bucket.tokens + tokensToAdd, FullBucket), lastUpdate |-> t]

allow(bkts, ip, t) == Refilled(bkts, ip, t).tokens >= OneToken

\* The bucket allow leaves behind, lines 316-322.
Spent(bkts, ip, t) ==
    LET bucket == Refilled(bkts, ip, t)
    IN  IF bucket.tokens >= OneToken
        THEN [bucket EXCEPT !.tokens = bucket.tokens - OneToken]
        ELSE bucket

RateIdle ==
    /\ now = 0
    /\ buckets = [c \in {} |-> 0]
    /\ admitLog = [c \in RateClients \ RateWhitelist |-> <<>>]
    /\ rateVerdict = [ip |-> None, answer |-> None]

RateInit == RateIdle

RateTick ==
    /\ now < MaxNow
    /\ now' = now + 1
    /\ UNCHANGED <<buckets, admitLog, rateVerdict>>
    /\ UNCHANGED <<archiveVars, apiVars, ipVars, gateVars, timeVars, laterVars>>

\* A request of a whitelisted client passes without touching a bucket.
RateBypass(ip) ==
    /\ ip \in RateWhitelist
    /\ rateVerdict' = [ip |-> ip, answer |-> "next"]
    /\ UNCHANGED <<now, buckets, admitLog>>
    /\ UNCHANGED <<archiveVars, apiVars, ipVars, gateVars, timeVars, laterVars>>

RateAdmit(ip) ==
    /\ ip \notin RateWhitelist
    /\ Len(admitLog[ip]) < MaxAdmits
    /\ allow(buckets, ip, now)
    /\ buckets' = (ip :> Spent(buckets, ip, now)) @@ buckets
    /\ admitLog' = [admitLog EXCEPT ![ip] = Append(@, now)]
    /\ rateVerdict' = [ip |-> ip, answer |-> "next"]
    /\ UNCHANGED now
    /\ UNCHANGED <<archiveVars, apiVars, ipVars, gateVars, timeVars, laterVars>>

\* RATE_LIMIT_EXCEEDED.
RateReject(ip) ==
    /\ ip \notin RateWhitelist
    /\ ~allow(buckets, ip, now)
    /\ buckets' = (ip :> Spent(buckets, ip, now)) @@ buckets
    /\ rateVerdict' = [ip |-> ip, answer |-> "RATE_LIMIT_EXCEEDED"]
    /\ UNCHANGED <<now, admitLog>>
    /\ UNCHANGED <<archiveVars, apiVars, ipVars, gateVars, timeVars, laterVars>>

RateNext ==
    \/ RateTick
    \/ \E ip \in RateClients : RateBypass(ip)
    \/ \E ip \in RateClients : RateAdmit(ip)
    \/ \E ip \in RateClients : RateReject(ip)

(***************************************************************************)
(* Concurrency gate (ConcurrencyLimitMiddleware).  main builds the chain   *)
(* once, so /api/info, /api/list and /api/extract share one semaphore.     *)
(* A request is new, handling (inside next.ServeHTTP), returning or        *)
(* panicking (next.ServeHTTP left, the deferred release not yet run),      *)
(* done, recovered (by RecoveryMiddleware), or rejected.                   *)
(***************************************************************************)
MaxConcurrent == 2

GateRequests == 1..(MaxConcurrent + 2)

\* The three gated routes; request r goes to RouteOf(r).
Routes == <<"/api/info", "/api/list", "/api/extract">>
RouteOf(r) == Routes[((r - 1) % Len(Routes)) + 1]

InFlight == {"handling", "returning", "panicking"}

GateIdle ==
    /\ semaphore = 0
    /\ gate = [r \in GateRequests |-> "done"]

GateInit ==
    /\ semaphore = 0
    /\ gate = [r \in GateRequests |-> "new"]

\* select: "case semaphore <- struct{}{}" is ready iff the channel has room.
CanAcquire(held) == held < MaxConcurrent

\* A release that a panic skips: the receive placed after next.ServeHTTP
\* instead of in a defer.
ReleasedUnlessPanic(held, how) == IF how = "panicking" THEN held ELSE held - 1

\* "defer func() { <-semaphore }()": runs however next.ServeHTTP is left.
Released(held, how) == held - 1

GateAcquire(r) ==
    /\ gate[r] = "new"
    /\ CanAcquire(semaphore)
    /\ semaphore' = semaphore + 1
    /\ gate' = [gate EXCEPT ![r] = "handling"]
    /\ UNCHANGED <<archiveVars, apiVars, ipVars, rateVars, timeVars, laterVars>>

\* default: TOO_MANY_REQUESTS, without waiting.
GateReject(r) ==
    /\ gate[r] = "new"
    /\ ~CanAcquire(semaphore)
    /\ gate' = [gate EXCEPT ![r] = "rejected"]
    /\ UNCHANGED semaphore
    /\ UNCHANGED <<archiveVars, apiVars, ipVars, rateVars, timeVars, laterVars>>

HandlerReturn(r) ==
    /\ gate[r] = "handling"
    /\ gate' = [gate EXCEPT ![r] = "returning"]
    /\ UNCHANGED semaphore
    /\ UNCHANGED <<archiveVars, apiVars, ipVars, rateVars, timeVars, laterVars>>

HandlerPanic(r) ==
    /\ gate[r] = "handling"
    /\ gate' = [gate EXCEPT ![r] = "panicking"]
    /\ UNCHANGED semaphore
    /\ UNCHANGED <<archiveVars, apiVars, ipVars, rateVars, timeVars, laterVars>>

GateRelease(r) ==
    /\ gate[r] \in {"returning", "panicking"}
    /\ semaphore' = Released(semaphore, gate[r])
    /\ gate' = [gate EXCEPT ![r] = IF gate[r] = "panicking" THEN "recovered" ELSE "done"]
    /\ UNCHANGED <<archiveVars, apiVars, ipVars, rateVars, timeVars, laterVars>>

GateNext ==
    \/ \E r \in GateRequests : GateAcquire(r)
    \/ \E r \in GateRequests : GateReject(r)
    \/ \E r \in GateRequests : HandlerReturn(r)
    \/ \E r \in GateRequests : HandlerPanic(r)
    \/ \E r \in GateRequests : GateRelease(r)

(***************************************************************************)
(* Timeouts (lib.Config, NewArchive, rangehttp.NewClient).  One tick is    *)
(* 30 seconds.                                                             *)
(***************************************************************************)
MaxClock == 6
MaxLatency == 2

\* http.Client{Timeout: 30 * time.Second} of DefaultConfig.
DefaultClientTimeout == 1
\* "timeout = 120 * time.Second" of NewArchive.
ZeroTimeoutDefault == 4

NoDeadline == -1

Timeouts == {-1, 0, 1, 2}

\* DefaultConfig().WithTimeout(t) keeps the client DefaultConfig built; a
\* Config literal leaves HTTPClient nil.
DefaultConfigWithTimeout(t) == [Timeout |-> t, HTTPClient |-> "default"]
ConfigLiteral(t) == [Timeout |-> t, HTTPClient |-> "nil"]

Configs ==
    { DefaultConfigWithTimeout(t) : t \in Timeouts } \cup { ConfigLiteral(t) : t \in Timeouts }

\* NewClient, lines 27-31: http.Client.Timeout of the client the session
\* uses; zero or less means the client sets no deadline.
NewClientTimeout(cfg) ==
    IF cfg.HTTPClient = "nil" THEN cfg.Timeout ELSE DefaultClientTimeout

\* A session whose zero timeout is taken as "no limit" instead of 120 s.
ContextDeadlineZeroUnlimited(cfg, t) ==
    IF cfg.Timeout <= 0 THEN NoDeadline ELSE t + cfg.Timeout

\* NewArchive, lines 58-67: the deadline of the session's context.
ContextDeadline(cfg, t) ==
    IF cfg.Timeout < 0 THEN NoDeadline
    ELSE IF cfg.Timeout = 0 THEN t + ZeroTimeoutDefault
    ELSE t + cfg.Timeout

\* Whether a request that starts at t and whose answer takes d can succeed:
\* the context must not be done and the client's timer must not fire.  At
\* the very instant of a deadline either may win.
Before(finish, deadline) ==
    IF finish < deadline THEN {TRUE}
    ELSE IF finish = deadline THEN {TRUE, FALSE}
    ELSE {FALSE}

RequestOutcomes(sess, t, d) ==
    LET ctx == IF sess.deadline = NoDeadline THEN {TRUE} ELSE Before(t + d, sess.deadline)
        timer == IF sess.httpTimeout <= 0 THEN {TRUE} ELSE Before(d, sess.httpTimeout)
    IN  { a /\ b : a \in ctx, b \in timer }

NoConfig == [Timeout |-> 0, HTTPClient |-> None]
NoSession == [created |-> -1, deadline |-> NoDeadline, httpTimeout |-> 0]
NoRangeRequest == [start |-> -1, latency |-> 0, ok |-> FALSE]

TimeIdle ==
    /\ config = NoConfig
    /\ session = NoSession
    /\ clock = 0
    /\ lastReq = NoRangeRequest

TimeInit ==
    /\ config \in Configs
    /\ session = NoSession
    /\ clock = 0
    /\ lastReq = NoRangeRequest

TimeTick ==
    /\ clock < MaxClock
    /\ clock' = clock + 1
    /\ UNCHANGED <<config, session, lastReq>>
    /\ UNCHANGED <<archiveVars, apiVars, ipVars, rateVars, gateVars, laterVars>>

TimeNewArchive ==
    /\ session = NoSession
    /\ session' = [ created     |-> clock,
                    deadline    |-> ContextDeadline(config, clock),
                    httpTimeout |-> NewClientTimeout(config) ]
    /\ UNCHANGED <<config, clock, lastReq>>
    /\ UNCHANGED <<archiveVars, apiVars, ipVars, rateVars, gateVars, laterVars>>

\* A ReadAt of the session: one range request under the session's context.
TimeRangeRequest(d) ==
    /\ session # NoSession
    /\ \E ok \in RequestOutcomes(session, clock, d) :
           lastReq' = [start |-> clock, latency |-> d, ok |-> ok]
    /\ UNCHANGED <<config, session, clock>>
    /\ UNCHANGED <<archiveVars, apiVars, ipVars, rateVars, gateVars, laterVars>>

TimeNext ==
    \/ TimeTick
    \/ TimeNewArchive
    \/ \E d \in 0..MaxLatency : TimeRangeRequest(d)

(***************************************************************************)
(* Cancellation (NewArchive, NewArchiveWithContext, Archive.Close,         *)
(* RangeReader).  A session made by NewArchive has the context "session",  *)
(* which is also Archive.ctx, and the reader's context "reader", a child   *)
(* of it.  NewArchiveWithContext calls NewArchive and then replaces        *)
(* Archive.ctx by "archive", a child of the caller's context "caller"; the *)
(* reader keeps the context NewArchive gave it.  NewArchiveWithTimeout     *)
(* calls NewArchive, cancels the context NewArchive made and replaces      *)
(* Archive.ctx by "archive", a context with the timeout as deadline.       *)
(***************************************************************************)
MaxReads == 2

SessionKinds == {"NewArchive", "NewArchiveWithContext", "NewArchiveWithTimeout"}

Contexts == {"caller", "session", "archive", "reader"}

\* context.WithCancel(parent), context.WithTimeout(context.Background(), ..)
ParentContext(kind, ctx) ==
    CASE ctx = "reader" -> "session"
      [] ctx = "archive" -> IF kind = "NewArchiveWithContext" THEN "caller" ELSE None
      [] OTHER -> None

\* Archive.ctx and the context Archive.cancel cancels.
ArchiveContext(kind) ==
    IF kind = "NewArchive" THEN "session" ELSE "archive"

\* The context a range request is made with: RangeReader.ctx.
RequestContext(kind) == "reader"

\* Cancelling a context ends it and every context derived from it.
Cancelled(kind, done, ctx) ==
    done \cup {ctx} \cup {c \in Contexts : ParentContext(kind, c) \in done \cup {ctx}}

\* The contexts that are done when the constructor returns:
\* NewArchiveWithTimeout has called archive.cancel() of NewArchive's context.
ConstructedDone(kind) ==
    IF kind = "NewArchiveWithTimeout" THEN Cancelled(kind, {}, "session") ELSE {}

NoRead == [state |-> "idle", tripped |-> FALSE, closed |-> FALSE, expired |-> FALSE]

CancelIdle ==
    /\ sessionKind = "NewArchive"
    /\ ctxDone = {}
    /\ readerClosed = FALSE
    /\ reads = [i \in 1..MaxReads |-> NoRead]

CancelInit ==
    /\ sessionKind \in SessionKinds
    /\ ctxDone = ConstructedDone(sessionKind)
    /\ readerClosed = FALSE
    /\ reads = [i \in 1..MaxReads |-> NoRead]

\* The session's token has been tripped: Archive.Close has run, or the
\* context given to NewArchiveWithContext has been cancelled.
Tripped ==
    \/ readerClosed
    \/ sessionKind = "NewArchiveWithContext" /\ "caller" \in ctxDone

\* Requests in flight under a context that is done are aborted.
Aborted(kind, done, rs) ==
    [i \in DOMAIN rs |->
        IF rs[i].state = "inflight" /\ RequestContext(kind) \in done
        THEN [rs[i] EXCEPT !.state = "aborted"]
        ELSE rs[i]]

\* ReadAt, lines 48-73: refused when the reader is closed or its context is
\* done, else the range request goes out to the origin.
ReadAtStart(i) ==
    /\ reads[i].state = "idle"
    /\ reads' = [reads EXCEPT ![i] =
                    [state   |-> IF readerClosed \/ RequestContext(sessionKind) \in ctxDone
                                 THEN "refused" ELSE "inflight",
                     tripped |-> Tripped,
                     closed  |-> readerClosed,
                     expired |-> sessionKind = "NewArchiveWithTimeout" /\ "archive" \in ctxDone]]
    /\ UNCHANGED <<sessionKind, ctxDone, readerClosed>>
    /\ UNCHANGED exceptCancelVars

\* ReadAt, lines 76-89: the body has been read.
ReadAtFinish(i) ==
    /\ reads[i].state = "inflight"
    /\ reads' = [reads EXCEPT ![i].state = "fetched"]
    /\ UNCHANGED <<sessionKind, ctxDone, readerClosed>>
    /\ UNCHANGED exceptCancelVars

\* The caller cancels the context it gave to NewArchiveWithContext.
CancelCaller ==
    /\ sessionKind = "NewArchiveWithContext"
    /\ "caller" \notin ctxDone
    /\ ctxDone' = Cancelled(sessionKind, ctxDone, "caller")
    /\ reads' = Aborted(sessionKind, ctxDone', reads)
    /\ UNCHANGED <<sessionKind, readerClosed>>
    /\ UNCHANGED exceptCancelVars

\* The timeout given to NewArchiveWithTimeout elapses.
TimeoutElapses ==
    /\ sessionKind = "NewArchiveWithTimeout"
    /\ "archive" \notin ctxDone
    /\ ctxDone' = Cancelled(sessionKind, ctxDone, "archive")
    /\ reads' = Aborted(sessionKind, ctxDone', reads)
    /\ UNCHANGED <<sessionKind, readerClosed>>
    /\ UNCHANGED exceptCancelVars

\* Archive.Close: RangeReader.Close (closed, cancel), then Archive.cancel.
ArchiveClose ==
    /\ readerClosed' = TRUE
    /\ ctxDone' = Cancelled(sessionKind,
                            Cancelled(sessionKind, ctxDone, "reader"),
                            ArchiveContext(sessionKind))
    /\ reads' = Aborted(sessionKind, ctxDone', reads)
    /\ UNCHANGED sessionKind
    /\ UNCHANGED exceptCancelVars

\* RangeReader.Close, the contexts done after it: nothing new when the
\* reader is closed already, else the reader's own context.
RangeReaderCloseNoCancel(kind, done, closed) == done

RangeReaderCloseContexts(kind, done, closed) ==
    IF closed THEN done ELSE Cancelled(kind, done, "reader")

MaxReaderCloses == 3

NoRangeReaderClose == [rets |-> <<>>, laterChanged |-> FALSE]

RcloseIdle == rclose = NoRangeReaderClose

\* RangeReader.Close called on the reader itself, while ReadAt calls may be
\* under way.  It returns nil.
RangeReaderClose ==
    /\ Len(rclose.rets) < MaxReaderCloses
    /\ readerClosed' = TRUE
    /\ ctxDone' = RangeReaderCloseContexts(sessionKind, ctxDone, readerClosed)
    /\ reads' = Aborted(sessionKind, ctxDone', reads)
    /\ rclose' = [rets |-> Append(rclose.rets, NoError),
                  laterChanged |->
                      \/ rclose.laterChanged
                      \/ /\ readerClosed
                         /\ <<readerClosed', ctxDone', reads'>> # <<readerClosed, ctxDone, reads>>]
    /\ UNCHANGED sessionKind
    /\ UNCHANGED <<baseVars, closeVars, encVars, readVars, pathVars, authVars, fourthVars>>

CancelNext ==
    \/ \E i \in 1..MaxReads : ReadAtStart(i)
    \/ \E i \in 1..MaxReads : ReadAtFinish(i)
    \/ CancelCaller
    \/ TimeoutElapses
    \/ ArchiveClose
    \/ RangeReaderClose

(***************************************************************************)
(* QuickExtract and archiveReader.  The session's resources are the        *)
(* context NewArchive makes and the RangeReader; the returned stream wraps  *)
(* the handler's stream and the session.                                   *)
(***************************************************************************)
MaxStream == 3
MaxCloses == 3

ErrInner == "inner stream close error"

\* How far QuickExtract gets: the failures of NewArchive in the order of its
\* code, the failure of Archive.ExtractFile, success.
QuickOutcomes ==
    { "invalid URL", "HEAD failed", "file too large", "no range reader",
      "format not detected", "extract failed", "ok" }

NoResources == [ctx |-> "none", reader |-> "none"]

\* The resources NewArchive leaves behind.
NewArchiveResources(outcome) ==
    CASE outcome = "invalid URL" -> NoResources
      [] outcome \in {"HEAD failed", "file too large", "no range reader"} ->
            [ctx |-> "done", reader |-> "none"]
      [] outcome = "format not detected" -> [ctx |-> "done", reader |-> "closed"]
      [] OTHER -> [ctx |-> "live", reader |-> "open"]

\* Archive.Close: RangeReader.Close, then cancel; it returns nil.
ArchiveCloseResources(res) ==
    [ctx |-> IF res.ctx = "none" THEN "none" ELSE "done",
     reader |-> IF res.reader = "none" THEN "none" ELSE "closed"]

ArchiveCloseError == NoError

SessionOpen(res) == res.ctx = "live" /\ res.reader = "open"
SessionClosed(res) == res.ctx # "live" /\ res.reader # "open"

\* The steps of archiveReader.Close, in order.
ReaderCloseStepsSessionFirst(closed) ==
    IF closed THEN <<>> ELSE <<"archive.Close", "stream.Close">>

ReaderCloseSteps(closed) ==
    IF closed THEN <<>> ELSE <<"stream.Close", "archive.Close">>

\* What archiveReader.Close returns: err1 if it is not nil, else err2.
ReaderCloseError(closed, err1, err2) ==
    IF closed THEN NoError
    ELSE IF err1 # NoError THEN err1 ELSE err2

NoQuick ==
    [ pc |-> "idle", outcome |-> NotCalled, innerErr |-> NoError, size |-> 0,
      res |-> NoResources,
      streamOpen |-> FALSE, closed |-> FALSE, pos |-> 0, lastRead |-> NotCalled,
      log |-> <<>>, rets |-> <<>> ]

CloseIdle == quick = NoQuick

CloseInit ==
    \E e \in {NoError, ErrInner}, n \in 1..MaxStream :
        quick = [NoQuick EXCEPT !.pc = "call", !.innerErr = e, !.size = n]

\* lib.QuickExtract, from the call to the return.
QuickExtractCall(outcome) ==
    /\ quick.pc = "call"
    /\ LET made == NewArchiveResources(outcome)
       IN  quick' = [quick EXCEPT
                !.pc = IF outcome = "ok" THEN "stream" ELSE "failed",
                !.outcome = outcome,
                !.res = IF outcome = "extract failed"
                        THEN ArchiveCloseResources(made) ELSE made,
                !.streamOpen = (outcome = "ok")]
    /\ UNCHANGED exceptCloseVars

\* The caller reads from the returned stream; the handler's stream fetches
\* through the session's RangeReader.
StreamRead ==
    /\ quick.pc = "stream"
    /\ quick.pos < quick.size
    /\ LET ok == quick.streamOpen /\ quick.res.reader = "open"
       IN  quick' = [quick EXCEPT
                !.pos = IF ok THEN @ + 1 ELSE @,
                !.lastRead = IF ok THEN NoError ELSE "read failed"]
    /\ UNCHANGED exceptCloseVars

\* archiveReader.Close.
ReaderClose ==
    /\ quick.pc = "stream"
    /\ Len(quick.rets) < MaxCloses
    /\ LET steps == ReaderCloseSteps(quick.closed)
           done(step) == \E i \in 1..Len(steps) : steps[i] = step
           events(step) == IF step = "archive.Close"
                           THEN <<"reader.Close", "cancel">> ELSE <<step>>
           logged == IF steps = <<>> THEN <<>>
                     ELSE events(steps[1]) \o events(steps[2])
       IN  quick' = [quick EXCEPT
                !.closed = TRUE,
                !.streamOpen = IF done("stream.Close") THEN FALSE ELSE @,
                !.res = IF done("archive.Close") THEN ArchiveCloseResources(@) ELSE @,
                !.log = @ \o logged,
                !.rets = Append(@, ReaderCloseError(quick.closed, quick.innerErr,
                                                    ArchiveCloseError))]
    /\ UNCHANGED exceptCloseVars

CloseNext ==
    \/ \E outcome \in QuickOutcomes : QuickExtractCall(outcome)
    \/ StreamRead
    \/ ReaderClose

(***************************************************************************)
(* GetInfo and encryption.  An archive is the sequence of its members'     *)
(* encryption flags, and for RAR and 7z whether its headers are encrypted  *)
(* too.  What the decoding libraries answer when they meet encrypted       *)
(* content without the right password is theirs to choose: success (the    *)
(* failure shows only when the data is read), an error whose text names    *)
(* the password, or another error.                                         *)
(***************************************************************************)
MaxMembers == 2

PasswordKinds == {"empty", "wrong", "correct"}

LibOutcomes == {"ok", "password error", "other error"}

\* Opening encrypted content.
Attempt(encrypted, pw) ==
    IF ~encrypted \/ pw = "correct" THEN {"ok"} ELSE LibOutcomes

\* Decoding encrypted headers: not possible without the password.
HeaderAttempt(encrypted, pw) ==
    IF ~encrypted \/ pw = "correct" THEN {"ok"}
    ELSE {"password error", "other error"}

\* The answers of the library for one GetInfo: outs[1] for opening the
\* archive, outs[i + 1] for member i.
LibAnswers(fmt, members, headerEnc, pw) ==
    { outs \in [1..(Len(members) + 1) -> LibOutcomes] :
        /\ outs[1] \in CASE fmt = "7z"  -> HeaderAttempt(headerEnc, pw)
                         [] fmt = "rar" -> Attempt(headerEnc, pw)
                         [] OTHER -> {"ok"}
        /\ \A i \in 1..Len(members) :
              outs[i + 1] \in
                 CASE fmt = "rar" -> IF headerEnc THEN HeaderAttempt(headerEnc, pw)
                                     ELSE Attempt(members[i], pw)
                   [] fmt = "tar" -> {"ok"}
                   [] OTHER -> Attempt(members[i], pw) }

NilInfo(err) ==
    [isNil |-> TRUE, IsEncrypted |-> FALSE, RequiresPassword |-> FALSE,
     listed |-> 0, err |-> err]

NewInfo ==
    [isNil |-> FALSE, IsEncrypted |-> FALSE, RequiresPassword |-> FALSE,
     listed |-> 0, err |-> NoError]

ErrOther == "other error"

\* The ArchiveInfo the RAR and 7z handlers return on a password error.
PasswordErrorInfoUnflagged(inf, pw) ==
    [inf EXCEPT !.RequiresPassword = TRUE,
                !.err = IF pw # "empty" THEN ErrPasswordIncorrect
                        ELSE ErrPasswordRequired]

PasswordErrorInfo(inf, pw) ==
    [inf EXCEPT !.IsEncrypted = TRUE, !.RequiresPassword = TRUE,
                !.err = IF pw # "empty" THEN ErrPasswordIncorrect
                        ELSE ErrPasswordRequired]

\* The end of GetInfo of the ZIP, RAR and 7z handlers.
GetInfoReturn(inf, pw) ==
    IF inf.IsEncrypted /\ pw = "empty"
    THEN [inf EXCEPT !.RequiresPassword = TRUE, !.err = ErrPasswordRequired]
    ELSE inf

\* zip.go, the loop over zipReader.File from member i on.
RECURSIVE ZipScan(_, _, _, _, _, _)
ZipScan(members, pw, outs, i, verified, inf) ==
    IF i > Len(members) THEN GetInfoReturn(inf, pw)
    ELSE LET listed == [inf EXCEPT !.listed = @ + 1]
         IN  IF ~members[i] THEN ZipScan(members, pw, outs, i + 1, verified, listed)
             ELSE IF ~verified /\ pw # "empty"
             THEN CASE outs[i + 1] = "password error" ->
                          [inf EXCEPT !.IsEncrypted = TRUE, !.RequiresPassword = TRUE,
                                      !.err = ErrPasswordIncorrect]
                    [] outs[i + 1] = "other error" -> NilInfo(ErrOther)
                    [] OTHER -> ZipScan(members, pw, outs, i + 1, TRUE,
                                        [listed EXCEPT !.IsEncrypted = TRUE])
             ELSE ZipScan(members, pw, outs, i + 1, verified,
                          [listed EXCEPT !.IsEncrypted = TRUE,
                                         !.RequiresPassword = IF pw = "empty" THEN TRUE ELSE @])

ZipGetInfo(members, pw, outs) == ZipScan(members, pw, outs, 1, FALSE, NewInfo)

\* rar.go, the loop over rarReader.Next() from member i on.
RECURSIVE RarScan(_, _, _, _, _)
RarScan(members, pw, outs, i, inf) ==
    IF i > Len(members) THEN GetInfoReturn(inf, pw)
    ELSE CASE outs[i + 1] = "password error" -> PasswordErrorInfo(inf, pw)
           [] outs[i + 1] = "other error" -> NilInfo(ErrOther)
           [] OTHER -> RarScan(members, pw, outs, i + 1, [inf EXCEPT !.listed = @ + 1])

RarGetInfo(members, pw, outs) ==
    IF outs[1] # "ok" THEN NilInfo(ErrOther)
    ELSE RarScan(members, pw, outs, 1, NewInfo)

\* sevenzip.go, the loop over szReader.File from member i on.
RECURSIVE SevenZipScan(_, _, _, _, _)
SevenZipScan(members, pw, outs, i, inf) ==
    IF i > Len(members) THEN GetInfoReturn(inf, pw)
    ELSE LET isEncrypted == pw = "empty" /\ outs[i + 1] = "password error"
             listed == [inf EXCEPT !.listed = @ + 1,
                                   !.IsEncrypted = IF isEncrypted THEN TRUE ELSE @,
                                   !.RequiresPassword = IF isEncrypted THEN TRUE ELSE @]
         IN  IF isEncrypted THEN GetInfoReturn(listed, pw)
             ELSE SevenZipScan(members, pw, outs, i + 1, listed)

SevenZipGetInfo(members, pw, outs) ==
    CASE outs[1] = "password error" -> PasswordErrorInfo(NewInfo, pw)
      [] outs[1] = "other error" -> NilInfo(ErrOther)
      [] OTHER -> SevenZipScan(members, pw, outs, 1, NewInfo)

TarGetInfo(members, pw) ==
    IF pw # "empty" THEN NilInfo(ErrTarEncryption)
    ELSE [NewInfo EXCEPT !.listed = Len(members)]

FormatGetInfo(fmt, members, pw, outs) ==
    CASE fmt = "zip" -> ZipGetInfo(members, pw, outs)
      [] fmt = "rar" -> RarGetInfo(members, pw, outs)
      [] fmt = "7z"  -> SevenZipGetInfo(members, pw, outs)
      [] fmt = "tar" -> TarGetInfo(members, pw)

NotProbed == NilInfo(NotCalled)

NoProbe ==
    [fmt |-> "zip", members |-> <<>>, headerEnc |-> FALSE, pw |-> "empty",
     result |-> NotProbed]

EncIdle == probe = NoProbe

\* TAR has no encryption; ZIP has no encrypted headers; where the headers
\* are encrypted, so is every member.
EncInit ==
    \E fmt \in Formats, n \in 1..MaxMembers, h \in BOOLEAN, pw \in PasswordKinds :
      \E members \in [1..n -> BOOLEAN] :
        /\ fmt = "tar" => \A i \in 1..n : ~members[i]
        /\ h => fmt \in {"rar", "7z"} /\ \A i \in 1..n : members[i]
        /\ probe = [fmt |-> fmt, members |-> members, headerEnc |-> h, pw |-> pw,
                    result |-> NotProbed]

\* Archive.GetInfo with the password.
ProbeGetInfo ==
    /\ \E outs \in LibAnswers(probe.fmt, probe.members, probe.headerEnc, probe.pw) :
          probe' = [probe EXCEPT !.result =
                        FormatGetInfo(probe.fmt, probe.members, probe.pw, outs)]
    /\ UNCHANGED exceptEncVars

EncNext == ProbeGetInfo

(***************************************************************************)
(* RangeReader.ReadAt, Client.RangeRequest and skipReader.  The file at    *)
(* the origin holds the byte i at offset i.  The origin answers a range    *)
(* GET with 206 and the window, or ignores the header and answers 200 with *)
(* the whole file.  A Read of the response body yields as many bytes as    *)
(* have arrived, at most the room it is given; the end of the body is      *)
(* reported with the last bytes or by the next Read.                       *)
(***************************************************************************)
MaxSize == 3
MaxBuf == 3
MaxChunk == 2

Statuses == {"206", "200"}

EOF == "EOF"

File(size) == [i \in 1..size |-> i - 1]

Take(seq, k) == SubSeq(seq, 1, Min(k, Len(seq)))

Drop(seq, k) == SubSeq(seq, k + 1, Len(seq))

\* ReadAt, lines 58-60.
AtEndStrict(off, size) == off > size

AtEnd(off, size) == off >= size

\* ReadAt, lines 62-66.
ReadLength(n, off, size) == IF off + n > size THEN size - off ELSE n

\* skipReader.Read, the skipOnce block: io.CopyN(io.Discard, reader, skip).
SkipReaderDiscardNone(body, skip) == body

SkipReaderDiscard(body, skip) == Drop(body, skip)

\* Client.RangeRequest: the reader handed back.  cap is the length a
\* skipReader still exposes, -1 for the plain response body; gets counts the
\* HTTP request.
RangeRequest(size, start, length, status) ==
    IF length = 0
    THEN [body |-> <<>>, skip |-> 0, cap |-> -1, gets |-> 0]
    ELSE LET resp == IF status = "206"
                     THEN SubSeq(File(size), start + 1, start + length)
                     ELSE File(size)
         IN  IF status = "200" /\ start > 0
             THEN [body |-> resp, skip |-> start, cap |-> length, gets |-> 1]
             ELSE [body |-> resp, skip |-> 0, cap |-> -1, gets |-> 1]

\* reader.Read(p) with room = len(p): skipReader.Read for a skipReader, the
\* body's Read otherwise.
ReaderRead(reader, room, chunk, eofWith) ==
    IF Len(reader.body) < reader.skip
    THEN [reader |-> [reader EXCEPT !.body = <<>>, !.skip = 0], data |-> <<>>, eof |-> TRUE]
    ELSE LET body == SkipReaderDiscard(reader.body, reader.skip)
             skipped == [reader EXCEPT !.body = body, !.skip = 0]
         IN  IF reader.cap = 0 \/ body = <<>>
             THEN [reader |-> skipped, data |-> <<>>, eof |-> TRUE]
             ELSE LET limit == IF reader.cap > 0 THEN Min(room, reader.cap) ELSE room
                      k == Min(Min(chunk, limit), Len(body))
                  IN  [reader |-> [skipped EXCEPT !.body = Drop(body, k),
                                                  !.cap = IF @ > 0 THEN @ - k ELSE @],
                       data |-> Take(body, k),
                       eof |-> eofWith /\ k = Len(body)]

NoReader == [body |-> <<>>, skip |-> 0, cap |-> -1, gets |-> 0]

NoRun ==
    [pc |-> "idle", length |-> 0, reader |-> NoReader, p |-> <<>>,
     fetches |-> 0, err |-> NotCalled]

NoRd == [size |-> 0, off |-> 0, n |-> 0, runs |-> [st \in Statuses |-> NoRun]]

ReadIdle == rd = NoRd

\* The same call, ReadAt(p, off) with len(p) = n, once against each origin.
ReadInit ==
    \E size \in 1..MaxSize, off \in 0..MaxSize, n \in 0..MaxBuf :
        /\ off <= size
        /\ rd = [size |-> size, off |-> off, n |-> n,
                 runs |-> [st \in Statuses |-> [NoRun EXCEPT !.pc = "call"]]]

\* ReadAt, lines 47-74: up to the range fetch.
ReadAtCall(st) ==
    /\ rd.runs[st].pc = "call"
    /\ LET length == ReadLength(rd.n, rd.off, rd.size)
           reader == RangeRequest(rd.size, rd.off, length, st)
       IN  rd' = [rd EXCEPT !.runs[st] =
                IF AtEnd(rd.off, rd.size)
                THEN [@ EXCEPT !.pc = "done", !.err = EOF]
                ELSE [@ EXCEPT !.pc = IF 0 < length THEN "loop" ELSE "done",
                               !.length = length,
                               !.reader = reader,
                               !.fetches = 1,
                               !.err = NoError]]
    /\ UNCHANGED exceptReadVars

\* ReadAt, lines 78-89: one turn of the read loop.
ReadAtLoop(st, chunk, eofWith) ==
    /\ rd.runs[st].pc = "loop"
    /\ LET run == rd.runs[st]
           r == ReaderRead(run.reader, rd.n - Len(run.p), chunk, eofWith)
           total == Len(run.p) + Len(r.data)
       IN  rd' = [rd EXCEPT !.runs[st] =
                [@ EXCEPT !.reader = r.reader,
                          !.p = @ \o r.data,
                          !.pc = IF r.eof \/ total >= run.length THEN "done" ELSE "loop",
                          !.err = IF r.eof /\ total # run.length THEN EOF ELSE NoError]]
    /\ UNCHANGED exceptReadVars

ReadNext ==
    \/ \E st \in Statuses : ReadAtCall(st)
    \/ \E st \in Statuses, chunk \in 1..MaxChunk, eofWith \in BOOLEAN :
          ReadAtLoop(st, chunk, eofWith)

(***************************************************************************)
(* utils.NormalizePath on its own: every text of at most MaxPathLen        *)
(* characters over "/", "." and a letter.                                  *)
(***************************************************************************)
MaxPathLen == 4

PathChars == {Slash, Dot, "a"}

PathTexts == UNION { [1..k -> PathChars] : k \in 0..MaxPathLen }

NoNorm == [p |-> <<>>, called |-> FALSE, out |-> <<>>]

PathIdle == norm = NoNorm

PathInit == \E p \in PathTexts : norm = [p |-> p, called |-> FALSE, out |-> <<>>]

NormalizePathCall ==
    /\ ~norm.called
    /\ norm' = [norm EXCEPT !.called = TRUE, !.out = NormalizePath(norm.p)]
    /\ UNCHANGED exceptPathVars

PathNext == NormalizePathCall

(***************************************************************************)
(* ServerConfig.Validate, GetAllAPIKeys and EnhancedAuthMiddleware.  A key *)
(* is a text; the empty text is what an empty entry of the configuration   *)
(* file and an absent header give.                                         *)
(***************************************************************************)
MaxKeys == 2

EmptyKey == <<>>

Keys == {EmptyKey, <<"k">>, <<"s">>}

\* The fields Validate looks at.
ServerConfigs ==
    { [ Port |-> port, AuthEnabled |-> en, SecretKey |-> sk, APIKeys |-> ks,
        MaxConcurrent |-> mc, MaxFileSize |-> mfs,
        IPWhitelistEnabled |-> we, IPWhitelistIPs |-> ips ] :
        port \in {0, 8080}, en \in BOOLEAN, sk \in {EmptyKey, <<"s">>},
        ks \in UNION { [1..k -> Keys \ {<<"s">>}] : k \in 0..MaxKeys },
        mc \in {0, 1}, mfs \in {-1, 0}, we \in BOOLEAN, ips \in {0, 1} }

\* ServerConfig.Validate returns nil.
ValidateOK(c) ==
    ~ ( \/ c.Port < 1 \/ c.Port > 65535
        \/ c.AuthEnabled /\ ~(c.SecretKey # EmptyKey \/ Len(c.APIKeys) > 0)
        \/ c.MaxConcurrent < 1
        \/ c.MaxFileSize < 0
        \/ c.IPWhitelistEnabled /\ c.IPWhitelistIPs = 0 )

GetAllAPIKeys(c) ==
    (IF c.SecretKey # EmptyKey THEN <<c.SecretKey>> ELSE <<>>) \o c.APIKeys

\* NewEnhancedAuthMiddleware: the key set of the middleware.
AuthKeys(keys) == { keys[i] : i \in 1..Len(keys) } \ {EmptyKey}

\* EnhancedAuthMiddleware.Handler for a request with the header value key.
AuthVerdict(enabled, apiKeys, key) ==
    IF ~enabled THEN "next"
    ELSE IF key = EmptyKey THEN "MISSING_API_KEY"
    ELSE IF key \notin apiKeys THEN "INVALID_API_KEY"
    ELSE "next"

NoServerConfig ==
    [ Port |-> 0, AuthEnabled |-> FALSE, SecretKey |-> EmptyKey, APIKeys |-> <<>>,
      MaxConcurrent |-> 0, MaxFileSize |-> 0,
      IPWhitelistEnabled |-> FALSE, IPWhitelistIPs |-> 0 ]

NoAuth ==
    [cfg |-> NoServerConfig, pc |-> "idle", apiKeys |-> {}, key |-> EmptyKey,
     verdict |-> NotCalled]

AuthIdle == authc = NoAuth

AuthInit == \E c \in ServerConfigs : authc = [NoAuth EXCEPT !.cfg = c, !.pc = "loaded"]

\* LoadConfig's call of Validate, then main's construction of the middleware.
AuthValidate ==
    /\ authc.pc = "loaded"
    /\ authc' = IF ValidateOK(authc.cfg)
                THEN [authc EXCEPT !.pc = "serving",
                                   !.apiKeys = AuthKeys(GetAllAPIKeys(authc.cfg))]
                ELSE [authc EXCEPT !.pc = "rejected"]
    /\ UNCHANGED exceptAuthVars

\* One request through the authentication middleware.
AuthServe(key) ==
    /\ authc.pc = "serving"
    /\ authc' = [authc EXCEPT !.key = key,
                              !.verdict = AuthVerdict(authc.cfg.AuthEnabled, authc.apiKeys, key)]
    /\ UNCHANGED exceptAuthVars

AuthNext ==
    \/ AuthValidate
    \/ \E key \in Keys : AuthServe(key)

(***************************************************************************)
(* The middleware chain of /api/info, /api/list and /api/extract (main,    *)
(* handlers.Chain).  The three routes share one chain, hence one limiter   *)
(* and one semaphore.  A request runs through the middlewares up to the    *)
(* handler or to the middleware that answers it; a request inside the      *)
(* handler holds its slot until the handler returns.                       *)
(***************************************************************************)
MaxChainNow == 1

\* server.api_keys, server.cors.enabled and rate_limit.whitelist.
ChainAPIKeys == << <<"k">> >>
ChainCORSEnabled == TRUE
ChainRateWhitelist == {}

\* A peer inside the listed block, a peer outside the allow-list, and the
\* listed plain address, which a header may carry.
ListedPeer == (CHOOSE subnet \in WhitelistSubnets : TRUE).base
UnlistedPeer == 2^IPBits - 2
ListedAddress == 2^IPBits - 1

ChainRequests ==
    [ peer : {ListedPeer, UnlistedPeer}, xff : {NoHeader, ListedAddress}, xri : {NoHeader},
      method : {"POST", "OPTIONS"}, origin : BOOLEAN, key : {EmptyKey, <<"k">>} ]

\* main, lines 86-95: the middlewares in the order they are handed to Chain.
Middlewares ==
    << "recovery", "request-log", "request-id", "ip-allow-list", "cors",
       "rate-limit", "concurrency", "authentication" >>

\* CORSMiddleware.Handler: a preflight is answered without calling next.
CORSHandler(r) ==
    IF ~ChainCORSEnabled THEN "next"
    ELSE IF ~r.origin THEN "next"
    ELSE IF r.method = "OPTIONS" THEN "preflight"
    ELSE "next"

\* What a middleware does before it calls next: its answer ("next", or how
\* it responds instead), the bucket it spends from, the slot it takes.
Middleware(name, r, st) ==
    CASE name = "ip-allow-list" -> [st EXCEPT !.answer = IPWhitelistHandler(r)]
      [] name = "cors" -> [st EXCEPT !.answer = CORSHandler(r)]
      [] name = "rate-limit" ->
            LET clientIP == getClientIP(r)
            IN  IF clientIP \in ChainRateWhitelist THEN st
                ELSE [st EXCEPT !.bkts = (clientIP :> Spent(st.bkts, clientIP, st.t)) @@ st.bkts,
                                !.token = allow(st.bkts, clientIP, st.t),
                                !.answer = IF allow(st.bkts, clientIP, st.t)
                                           THEN "next" ELSE "RATE_LIMIT_EXCEEDED"]
      [] name = "concurrency" ->
            IF CanAcquire(st.held)
            THEN [st EXCEPT !.held = st.held + 1, !.slot = TRUE]
            ELSE [st EXCEPT !.answer = "TOO_MANY_REQUESTS"]
      [] name = "authentication" ->
            [st EXCEPT !.answer = AuthVerdict(TRUE, AuthKeys(ChainAPIKeys), r.key)]
      [] OTHER -> st

\* Chain: middlewares[i] wraps what follows it, so a request enters the
\* first middleware first and the handler last.
RECURSIVE Chain(_, _, _, _)
Chain(middlewares, i, r, st) ==
    IF i > Len(middlewares)
    THEN [st EXCEPT !.reached = Append(@, "handler")]
    ELSE LET entered == [st EXCEPT !.reached = Append(@, middlewares[i])]
             after == Middleware(middlewares[i], r, entered)
         IN  IF after.answer = "next" THEN Chain(middlewares, i + 1, r, after) ELSE after

NoPassage ==
    [ request |-> [peer |-> NoHeader, xff |-> NoHeader, xri |-> NoHeader,
                   method |-> None, origin |-> FALSE, key |-> EmptyKey],
      reached |-> <<>>, token |-> FALSE, slot |-> FALSE, answer |-> None ]

NoChain == [inside |-> 0, last |-> NoPassage]

ChainIdle == chain = NoChain

ChainInit == chain = NoChain

\* A request arrives and runs until it is answered or is inside the handler.
ChainServe(r) ==
    LET st == Chain(Middlewares, 1, r,
                    [bkts |-> buckets, t |-> now, held |-> semaphore, reached |-> <<>>,
                     token |-> FALSE, slot |-> FALSE, answer |-> "next"])
        inHandler == st.answer = "next"
    IN  /\ buckets' = st.bkts
        /\ semaphore' = IF st.slot /\ ~inHandler
                        THEN Released(st.held, "returning")
                        ELSE st.held
        /\ chain' = [inside |-> chain.inside + (IF inHandler THEN 1 ELSE 0),
                     last |-> [request |-> r, reached |-> st.reached, token |-> st.token,
                               slot |-> st.slot, answer |-> st.answer]]
        /\ UNCHANGED <<now, admitLog, rateVerdict, gate>>
        /\ UNCHANGED <<archiveVars, apiVars, ipVars, timeVars, secondVars, thirdVars, exceptChainVars>>

\* The handler of one request returns; the deferred receive frees its slot.
ChainHandlerReturn ==
    /\ chain.inside > 0
    /\ semaphore' = Released(semaphore, "returning")
    /\ chain' = [chain EXCEPT !.inside = @ - 1]
    /\ UNCHANGED <<gate, rateVars>>
    /\ UNCHANGED <<archiveVars, apiVars, ipVars, timeVars, secondVars, thirdVars, exceptChainVars>>

ChainTick ==
    /\ now < MaxChainNow
    /\ now' = now + 1
    /\ UNCHANGED <<buckets, admitLog, rateVerdict>>
    /\ UNCHANGED <<archiveVars, apiVars, ipVars, gateVars, timeVars, secondVars, thirdVars, fourthVars>>

ChainNext ==
    \/ \E r \in ChainRequests : ChainServe(r)
    \/ ChainHandlerReturn
    \/ ChainTick

(***************************************************************************)
(* The file size limit of a session (DefaultConfig, WithMaxFileSize,       *)
(* NewArchive).  Sizes are in bytes.                                       *)
(***************************************************************************)
MaxExtraSizes == 3

\* 500 MB, the limit the configuration test expects of DefaultConfig.
FiveHundredMB == 500 * 1024 * 1024

\* DefaultConfig: Timeout in seconds, BufferSize in bytes.
DefaultConfig ==
    [Timeout |-> 30, UserAgent |-> "Stream-7z/1.0", MaxFileSize |-> 0, BufferSize |-> 32 * 1024]

WithMaxFileSize(c, size) == [c EXCEPT !.MaxFileSize = size]

SizeConfigs ==
    {DefaultConfig} \cup { WithMaxFileSize(DefaultConfig, m) : m \in {-1, 1, 2, FiveHundredMB, FiveHundredMB + 1} }

\* Content-Length of the origin's answer to HEAD.
FileSizes ==
    {0, 1, 2} \cup { FiveHundredMB + d : d \in 0..MaxExtraSizes } \cup {2 * FiveHundredMB}

\* NewArchive, lines 80-84.
ExceedsMaxFileSize(c, size) == c.MaxFileSize > 0 /\ size > c.MaxFileSize

NoSized == [cfg |-> DefaultConfig, size |-> 0, pc |-> "idle"]

SizeIdle == sized = NoSized

SizeInit == \E c \in SizeConfigs, size \in FileSizes : sized = [cfg |-> c, size |-> size, pc |-> "new"]

\* NewArchive up to the size check; the session opens or is refused.
SizeNewArchive ==
    /\ sized.pc = "new"
    /\ sized' = [sized EXCEPT !.pc = IF ExceedsMaxFileSize(sized.cfg, sized.size)
                                     THEN "refused" ELSE "open"]
    /\ UNCHANGED exceptSizeVars

SizeClose ==
    /\ sized.pc = "open"
    /\ sized' = [sized EXCEPT !.pc = "closed"]
    /\ UNCHANGED exceptSizeVars

SizeNext == SizeNewArchive \/ SizeClose

(***************************************************************************)
(* Registry.DetectFormat over arbitrary leading bytes.  The bytes are      *)
(* what the Detect predicates look at: the magic at offset 0 and whether   *)
(* "ustar" stands at offset 257.  The registry is a Go map, so each of the *)
(* two loops ranges over the handlers in an order of its own.              *)
(***************************************************************************)
MaxDetections == 2

Magics == {"PK", "Rar!", "7z", "gzip", "bzip2", "xz", "other"}

LeadingBytes == [magic : Magics, ustar : BOOLEAN]

\* "none": the extension of the URL is in no handler's Extensions().
Extensions == Formats \cup {"none"}

ErrFormatNotDetected == "formats.ErrFormatNotDetected"

\* ZipFormat.Detect, RarFormat.Detect, SevenZipFormat.Detect, TarFormat.Detect.
DetectBytes(f, bytes) ==
    CASE f = "zip" -> bytes.magic = "PK"
      [] f = "rar" -> bytes.magic = "Rar!"
      [] f = "7z" -> bytes.magic = "7z"
      [] f = "tar" -> bytes.magic \in {"gzip", "bzip2", "xz"} \/ bytes.ustar

\* One loop of DetectFormat: the first handler in range order that is among
\* the handlers tried (owns) and whose Detect accepts the bytes.
RECURSIVE FirstDetected(_, _, _)
FirstDetected(order, owns, bytes) ==
    IF Len(order) = 0 THEN ErrFormatNotDetected
    ELSE IF Head(order) \in owns /\ DetectBytes(Head(order), bytes) THEN Head(order)
    ELSE FirstDetected(Tail(order), owns, bytes)

\* Registry.DetectFormat: the loop over the handlers that own the
\* extension, then the loop over all handlers.
RegistryDetectFormat(byExtension, all, bytes, ext) ==
    LET first == FirstDetected(byExtension, {ext} \cap Formats, bytes)
    IN  IF first # ErrFormatNotDetected THEN first
        ELSE FirstDetected(all, Formats, bytes)

NoDet == [bytes |-> [magic |-> "other", ustar |-> FALSE], ext |-> "none", formats |-> <<>>]

DetectIdle == det = NoDet

DetectInit ==
    \E bytes \in LeadingBytes, ext \in Extensions :
        det = [bytes |-> bytes, ext |-> ext, formats |-> <<>>]

\* One more detection over the same bytes and extension.
DetectFormatCall(byExtension, all) ==
    /\ Len(det.formats) < MaxDetections
    /\ det' = [det EXCEPT !.formats =
                   Append(@, RegistryDetectFormat(byExtension, all, det.bytes, det.ext))]
    /\ UNCHANGED exceptDetectVars

DetectNext == \E byExtension \in FormatOrders, all \in FormatOrders : DetectFormatCall(byExtension, all)

(***************************************************************************)
(* Handler.Info.  QuickInfo opens a session, reads the metadata and closes *)
(* the session; the handler then opens a second session on the same URL    *)
(* only to ask it for the format name of the response.                     *)
(***************************************************************************)
\* InfoResponse.Format before the handler assigns it.
EmptyFormat == ""

NoHandler == "no handler"

\* NewArchive: HEAD, then DetectFormat; the handler selected, or the error.
NewArchiveFormat(head, byExtension, all, bytes, ext) ==
    IF head # "200" THEN [format |-> NoHandler, err |-> NewArchiveHeadError(head, <<>>)]
    ELSE LET f == RegistryDetectFormat(byExtension, all, bytes, ext)
         IN  IF f = ErrFormatNotDetected
             THEN [format |-> NoHandler, err |-> TextFormatNotDetected]
             ELSE [format |-> f, err |-> <<>>]

NoIresp ==
    [ bytes |-> [magic |-> "other", ustar |-> FALSE], ext |-> "none", pc |-> "idle",
      handler |-> NoHandler, code |-> None, format |-> EmptyFormat ]

InfoIdle == iresp = NoIresp

InfoInit ==
    \E bytes \in LeadingBytes, ext \in Extensions :
        iresp = [NoIresp EXCEPT !.bytes = bytes, !.ext = ext, !.pc = "request"]

\* lib.QuickInfo: the session whose handler produces the metadata.  A
\* failure of NewArchive or of GetInfo ends the request with an error code.
InfoQuickInfo(head, byExtension, all, getInfoErr) ==
    LET a == NewArchiveFormat(head, byExtension, all, iresp.bytes, iresp.ext)
        errMsg1 == IF a.format = NoHandler THEN a.err ELSE ErrorText(getInfoErr)
    IN  /\ iresp.pc = "request"
        /\ iresp' = IF a.format # NoHandler /\ getInfoErr = NoError
                    THEN [iresp EXCEPT !.pc = "metadata", !.handler = a.format]
                    ELSE [iresp EXCEPT !.pc = "responded",
                                       !.code = InfoErrorCode(errMsg1, FALSE)]
        /\ UNCHANGED exceptInfoVars

\* Lines 66-79: the second session and the 200 response.
InfoRespond(head, byExtension, all) ==
    LET a == NewArchiveFormat(head, byExtension, all, iresp.bytes, iresp.ext)
    IN  /\ iresp.pc = "metadata"
        /\ iresp' = [iresp EXCEPT !.pc = "responded", !.code = "OK",
                                  !.format = IF a.format # NoHandler
                                             THEN a.format ELSE EmptyFormat]
        /\ UNCHANGED exceptInfoVars

InfoNext ==
    \/ \E head \in HeadOutcomes, byExtension \in FormatOrders, all \in FormatOrders,
          getInfoErr \in {NoError, ErrPasswordRequired} :
            InfoQuickInfo(head, byExtension, all, getInfoErr)
    \/ \E head \in HeadOutcomes, byExtension \in FormatOrders, all \in FormatOrders :
            InfoRespond(head, byExtension, all)

(***************************************************************************)
(* Specifications, one per part of the system.                             *)
(***************************************************************************)
BaseIdle == ArchiveIdle /\ ApiIdle /\ IpIdle /\ RateIdle /\ GateIdle /\ TimeIdle
SecondIdle == CancelIdle /\ CloseIdle /\ EncIdle /\ ReadIdle
ThirdIdle == PathIdle /\ AuthIdle /\ RcloseIdle
FourthIdle == ChainIdle /\ SizeIdle /\ DetectIdle /\ InfoIdle
LaterIdle == SecondIdle /\ ThirdIdle /\ FourthIdle

Init == ArchiveInit /\ ApiIdle /\ IpIdle /\ RateIdle /\ GateIdle /\ TimeIdle /\ LaterIdle
Next == ArchiveNext
Spec == Init /\ [][Next]_vars

InitApi == ApiInit /\ IpIdle /\ RateIdle /\ GateIdle /\ TimeIdle /\ LaterIdle
SpecApi == InitApi /\ [][ApiNext]_vars

InitIp == ArchiveIdle /\ ApiIdle /\ IpInit /\ RateIdle /\ GateIdle /\ TimeIdle /\ LaterIdle
SpecIp == InitIp /\ [][IpNext]_vars

InitRate == ArchiveIdle /\ ApiIdle /\ IpIdle /\ RateInit /\ GateIdle /\ TimeIdle /\ LaterIdle
SpecRate == InitRate /\ [][RateNext]_vars

InitGate == ArchiveIdle /\ ApiIdle /\ IpIdle /\ RateIdle /\ GateInit /\ TimeIdle /\ LaterIdle
SpecGate == InitGate /\ [][GateNext]_vars

InitTime == ArchiveIdle /\ ApiIdle /\ IpIdle /\ RateIdle /\ GateIdle /\ TimeInit /\ LaterIdle
SpecTime == InitTime /\ [][TimeNext]_vars

InitCancel == BaseIdle /\ CancelInit /\ CloseIdle /\ EncIdle /\ ReadIdle /\ ThirdIdle /\ FourthIdle
SpecCancel == InitCancel /\ [][CancelNext]_vars

InitClose == BaseIdle /\ CancelIdle /\ CloseInit /\ EncIdle /\ ReadIdle /\ ThirdIdle /\ FourthIdle
SpecClose == InitClose /\ [][CloseNext]_vars

InitEnc == BaseIdle /\ CancelIdle /\ CloseIdle /\ EncInit /\ ReadIdle /\ ThirdIdle /\ FourthIdle
SpecEnc == InitEnc /\ [][EncNext]_vars

InitRead == BaseIdle /\ CancelIdle /\ CloseIdle /\ EncIdle /\ ReadInit /\ ThirdIdle /\ FourthIdle
SpecRead == InitRead /\ [][ReadNext]_vars

InitPath == BaseIdle /\ SecondIdle /\ PathInit /\ AuthIdle /\ RcloseIdle /\ FourthIdle
SpecPath == InitPath /\ [][PathNext]_vars

InitAuth == BaseIdle /\ SecondIdle /\ PathIdle /\ AuthInit /\ RcloseIdle /\ FourthIdle
SpecAuth == InitAuth /\ [][AuthNext]_vars

InitSize == BaseIdle /\ SecondIdle /\ ThirdIdle /\ ChainIdle /\ SizeInit /\ DetectIdle /\ InfoIdle
SpecSize == InitSize /\ [][SizeNext]_vars

InitDetect == BaseIdle /\ SecondIdle /\ ThirdIdle /\ ChainIdle /\ SizeIdle /\ DetectInit /\ InfoIdle
SpecDetect == InitDetect /\ [][DetectNext]_vars

InitInfo == BaseIdle /\ SecondIdle /\ ThirdIdle /\ ChainIdle /\ SizeIdle /\ DetectIdle /\ InfoInit
SpecInfo == InitInfo /\ [][InfoNext]_vars

InitChain == BaseIdle /\ SecondIdle /\ ThirdIdle /\ ChainInit /\ SizeIdle /\ DetectIdle /\ InfoIdle
SpecChain == InitChain /\ [][ChainNext]_vars

(***************************************************************************)
(* Properties.                                                             *)
(***************************************************************************)

\* C1: for every format handler and every archive that opens without a
\* password error, ListFiles with innerPath "" returns the same multiset of
\* entries as the entry list of GetInfo on the same session.
ListAllEqualsInfo ==
    (info.err = NoError /\ listing.err = NoError /\ listing.innerPath = <<>>)
    => LET count(files, e) == Cardinality({i \in 1..Len(files) : files[i] = e})
           entries == {info.Files[i] : i \in 1..Len(info.Files)}
                      \cup {listing.files[i] : i \in 1..Len(listing.files)}
       IN  \A e \in entries : count(listing.files, e) = count(info.Files, e)

\* C2: for every format handler, ListFiles with innerPath "/" returns
\* exactly the top-level entries: a member is returned if and only if its
\* normalized name, a trailing "/" ignored, contains no "/".
ListRootIsTopLevel ==
    (listing.err = NoError /\ listing.innerPath = <<Slash>>)
    => LET returned == {listing.files[j].Path : j \in 1..Len(listing.files)}
           top(name) == ~Contains(TrimSuffix(NormalizePath(name), <<Slash>>), <<Slash>>)
       IN  /\ \A i \in 1..Len(archive) : top(archive[i].name) <=> archive[i].name \in returned
           /\ \A name \in returned : \E i \in 1..Len(archive) : archive[i].name = name

\* C3: an extract request for a path whose normalization contains ".."
\* fails with the path-traversal error, INVALID_PATH at the HTTP API, and no
\* HEAD and no range GET is sent to the origin on behalf of that request.
TraversalBeforeAnyRequest ==
    (req.endpoint = "extract" /\ Contains(NormalizePath(req.path), DotDot))
    => /\ heads = 0
       /\ gets = 0
       /\ pc = "done" => code = "INVALID_PATH"

\* C4: for every entry e returned by ListFiles(""), ExtractFile(e.Path) on
\* the same session succeeds and its stream yields exactly e.Size bytes.
ExtractYieldsListedSize ==
    (listing.err = NoError /\ listing.innerPath = <<>> /\ extracted.err # NotCalled)
    => \A i \in 1..Len(listing.files) :
           listing.files[i].Path = extracted.filePath
           => extracted.err = NoError /\ extracted.read = listing.files[i].Size

\* C5: when the HEAD probe of the archive URL fails, by a network error or
\* by a status other than 2xx, the HTTP API answers /api/info, /api/list
\* and /api/extract with the code URL_ERROR.
HeadFailureIsUrlError ==
    (pc = "done" /\ headOutcome # "200") => code = "URL_ERROR"

\* C6: with the allow-list enabled a request reaches the next handler only
\* if the address of the connecting peer is a listed IP or lies inside a
\* listed block, whatever headers it carries: requests from one peer that
\* differ only in their headers get one decision.
AllowListDecidesByPeer ==
    \A i \in 1..Len(ipLog) :
        LET r == ipLog[i].request
            peerListed ==
                \/ r.peer \in WhitelistIPs
                \/ \E subnet \in WhitelistSubnets : SubnetContains(subnet, r.peer)
        IN  /\ ipLog[i].verdict = "next" => peerListed
            /\ \A q \in HttpRequests :
                   q.peer = r.peer => IPWhitelistHandler(q) = ipLog[i].verdict

\* C7: of the requests of one client that is not whitelisted, at most
\* requests_per_min are admitted within any window of one minute.
AtMostNPerMinute ==
    \A ip \in DOMAIN admitLog :
        \A t0 \in 0..MaxNow :
            Cardinality({ i \in 1..Len(admitLog[ip]) :
                            /\ admitLog[ip][i] >= t0
                            /\ admitLog[ip][i] < t0 + TicksPerMin }) <= RequestsPerMin

\* C8: at most max_concurrent requests are inside the gated handlers of
\* /api/info, /api/list and /api/extract at once and the slots held are
\* exactly the requests in flight; a request that arrives when
\* max_concurrent are in flight is answered TOO_MANY_REQUESTS at once, any
\* other is admitted; an admitted request gives its slot back when it
\* leaves, by return or by panic.
GateSlotsAreRequestsInFlight ==
    /\ semaphore = Cardinality({r \in GateRequests : gate[r] \in InFlight})
    /\ semaphore <= MaxConcurrent

GateStep ==
    \A r \in GateRequests :
        /\ (gate[r] = "new" /\ gate'[r] # "new")
           => IF semaphore = MaxConcurrent
              THEN gate'[r] = "rejected" /\ semaphore' = semaphore
              ELSE gate'[r] = "handling" /\ semaphore' = semaphore + 1
        /\ (gate[r] \in InFlight /\ gate'[r] \notin InFlight)
           => /\ semaphore' = semaphore - 1
              /\ gate'[r] = (IF gate[r] = "panicking" THEN "recovered" ELSE "done")

GateAdmitsUpToMaxConcurrent ==
    []GateSlotsAreRequestsInFlight /\ [][GateStep]_vars

\* The gate is full with requests of two routes, it has turned one request
\* away, and a request that panicked has given its slot back.
GateFullAfterPanic ==
    /\ semaphore = MaxConcurrent
    /\ \E r \in GateRequests : gate[r] = "rejected"
    /\ \E r \in GateRequests : gate[r] = "recovered"
    /\ \E r1, r2 \in GateRequests :
           /\ gate[r1] = "handling"
           /\ gate[r2] = "handling"
           /\ RouteOf(r1) # RouteOf(r2)

\* C9: a session created from a Config whose Timeout is negative, the one
\* DefaultConfig().WithTimeout gives included, has no deadline at either
\* level: its token has none and its HTTP client applies no timeout.
NegativeTimeoutNoDeadline ==
    (session # NoSession /\ config.Timeout < 0)
    => /\ session.deadline = NoDeadline
       /\ session.httpTimeout <= 0

\* C10, as claimed: a positive timeout is counted from the moment each
\* request starts, so a request started later than the timeout after its
\* session was created, and answered in less than the timeout, succeeds.
TimeoutCountsFromRequestStart ==
    (session # NoSession /\ config.HTTPClient = "nil" /\ config.Timeout > 0
        /\ lastReq.start > session.created + config.Timeout
        /\ lastReq.latency < config.Timeout)
    => lastReq.ok

\* C10, amended: with a zero or positive timeout T the token of the session
\* expires T after the session was created (120 s when T is zero), so
\* no request of the session succeeds after that instant; a client built by
\* NewClient bounds each single request by T as well.
TimeoutCountsFromSessionCreation ==
    (lastReq.ok /\ config.Timeout >= 0)
    => /\ lastReq.start + lastReq.latency
              <= session.created
                 + (IF config.Timeout = 0 THEN ZeroTimeoutDefault ELSE config.Timeout)
       /\ (config.HTTPClient = "nil" /\ config.Timeout > 0)
              => lastReq.latency <= config.Timeout

\* A request of a session with a positive timeout has succeeded: it started
\* after the session was created, took time, and ended by the deadline.
RequestSucceededInTime ==
    /\ config.Timeout > 0
    /\ lastReq.ok
    /\ lastReq.start > session.created
    /\ lastReq.latency > 0

\* C11: every request of a session carries the session's token: once the
\* token is tripped, by Archive.Close or by cancelling the context given to
\* NewArchiveWithContext, no range request of the session stays in flight
\* and every ReadAt made afterwards fails without fetching.
TrippedTokenStopsRequests ==
    \A i \in 1..MaxReads :
        /\ Tripped => reads[i].state # "inflight"
        /\ reads[i].tripped => reads[i].state = "refused"

\* C12: when NewArchive or ExtractFile fails, the session is closed by the
\* time QuickExtract returns; on success the session stays open as long as
\* the returned stream is not closed; the first Close closes the inner stream
\* first and the session second and returns the inner stream's error if it
\* has one, else the session's; every further Close does nothing and
\* returns no error.
QuickExtractClosesSession ==
    /\ quick.pc = "failed" => SessionClosed(quick.res)
    /\ (quick.pc = "stream" /\ quick.rets = <<>>) =>
            SessionOpen(quick.res) /\ quick.streamOpen
    /\ quick.rets # <<>> =>
            /\ quick.log = <<"stream.Close", "reader.Close", "cancel">>
            /\ ~quick.streamOpen /\ SessionClosed(quick.res)
            /\ quick.rets[1] = IF quick.innerErr # NoError THEN quick.innerErr
                               ELSE ArchiveCloseError
            /\ \A k \in 2..Len(quick.rets) : quick.rets[k] = NoError

StreamClosedTwiceAfterFailure ==
    /\ quick.pc = "stream"
    /\ quick.innerErr = ErrInner
    /\ quick.pos > 0
    /\ Len(quick.rets) >= 2

\* C13: for the ZIP, RAR and 7z handlers and every archive with an encrypted
\* member, the ArchiveInfo GetInfo returns has IsEncrypted set, whatever the
\* password: empty, wrong or correct.
GetInfoReportsEncryption ==
    ( /\ probe.result # NotProbed
      /\ ~probe.result.isNil
      /\ probe.fmt \in {"zip", "rar", "7z"}
      /\ \E i \in 1..Len(probe.members) : probe.members[i] )
    => probe.result.IsEncrypted

\* C14: every non-nil ArchiveInfo GetInfo returns, with or without an error,
\* has RequiresPassword only together with IsEncrypted.
RequiresPasswordImpliesEncrypted ==
    (probe.result # NotProbed /\ ~probe.result.isNil)
    => (probe.result.RequiresPassword => probe.result.IsEncrypted)

InfoRequiresPasswordWithError ==
    /\ probe.result # NotProbed
    /\ ~probe.result.isNil
    /\ probe.fmt = "rar"
    /\ probe.result.RequiresPassword
    /\ probe.result.err = ErrPasswordIncorrect

\* C15: the HTTP API answers PASSWORD_REQUIRED only when the operation met
\* encrypted content and the request had no password, and WRONG_PASSWORD only
\* when the decoder rejected the password of the request; no other failure,
\* a network failure or a missing entry among them, gets either code,
\* whatever the URL and the file name of the request.
PasswordCodesOnlyForPasswordFailures ==
    LET opErr == CASE req.endpoint = "info" -> info.err
                   [] req.endpoint = "list" -> listing.err
                   [] req.endpoint = "extract" -> extracted.err
                   [] OTHER -> NotCalled
    IN  /\ (pc = "done" /\ code = "PASSWORD_REQUIRED")
              => opErr = ErrPasswordRequired /\ password = NoPassword
        /\ (pc = "done" /\ code = "WRONG_PASSWORD")
              => opErr = ErrPasswordIncorrect /\ password # NoPassword

\* C16: a list request whose innerPath names a directory the archive does
\* not have is answered with the code PATH_NOT_FOUND, not with a listing.
ListOfMissingDirectoryIsPathNotFound ==
    ( /\ pc = "done"
      /\ req.endpoint = "list"
      /\ headOutcome = "200"
      /\ listing.err = NoError
      /\ req.path # <<>>
      /\ \A i \in 1..Len(archive) :
            /\ NormalizePath(archive[i].name) # NormalizePath(req.path)
            /\ ~HasPrefix(NormalizePath(archive[i].name),
                          NormalizePath(req.path) \o <<Slash>>) )
    => code = "PATH_NOT_FOUND"

\* C17: for every offset and buffer length ReadAt delivers the same number
\* of bytes and the same bytes whether the origin answers 206 with the window
\* or 200 with the whole file; with a 200 answer and start > 0 the first byte
\* delivered is the byte at offset start and no more than the requested
\* length is exposed.
SameBytesFor200And206 ==
    LET partial == rd.runs["206"]
        whole == rd.runs["200"]
    IN  /\ (partial.pc = "done" /\ whole.pc = "done") =>
               /\ whole.p = partial.p
               /\ whole.err = partial.err
        /\ (whole.pc \in {"loop", "done"} /\ rd.off > 0) =>
               /\ Len(whole.p) <= whole.length
               /\ whole.p # <<>> => whole.p[1] = File(rd.size)[rd.off + 1]

WholeFileAnswerSkipped ==
    /\ rd.runs["206"].pc = "done"
    /\ rd.runs["200"].pc = "done"
    /\ rd.off > 0
    /\ rd.n > 0
    /\ Len(rd.runs["200"].p) = rd.n
    /\ rd.off + rd.n < rd.size

\* C18: on an open reader of size S over an origin that serves the file,
\* ReadAt(buf, off) with 0 <= off < S returns exactly min(len(buf), S - off)
\* bytes, the origin's bytes [off, off + n), with one range fetch;
\* ReadAt(buf, S) returns 0 bytes and end-of-input.
ReadAtReturnsWindow ==
    \A st \in Statuses :
        LET run == rd.runs[st]
        IN  run.pc = "done" =>
               IF rd.off < rd.size
               THEN /\ Len(run.p) = Min(rd.n, rd.size - rd.off)
                    /\ run.p = SubSeq(File(rd.size), rd.off + 1, rd.off + Len(run.p))
                    /\ run.fetches = 1
               ELSE /\ run.p = <<>>
                    /\ run.err = EOF

ShortReadAtTail ==
    /\ rd.runs["206"].pc = "done"
    /\ rd.off > 0
    /\ rd.off < rd.size
    /\ rd.n > rd.size - rd.off
    /\ Len(rd.runs["206"].p) = rd.size - rd.off

\* C19: for every handler and every innerPath other than "" and "/", the
\* paths "." and "a/.." that normalize to the root among them, every entry
\* ListFiles returns has a normalized path that starts with the normalized
\* innerPath followed by "/" and has no further "/" after that prefix, a
\* trailing "/" aside.
ListedEntriesAreDirectChildren ==
    (listing.err = NoError /\ listing.innerPath \notin {<<>>, <<Slash>>})
    => \A i \in 1..Len(listing.files) :
          LET name == NormalizePath(listing.files[i].Path)
              prefix == NormalizePath(listing.innerPath) \o <<Slash>>
          IN  /\ HasPrefix(name, prefix)
              /\ ~Contains(TrimSuffix(TrimPrefix(name, prefix), <<Slash>>), <<Slash>>)

\* C20 as stated: Archive.ExtractFile returns the path-traversal error
\* exactly when the normalized form of the requested path contains "..".
TraversalErrorIffNormalizedHasDotDot ==
    extracted.err # NotCalled
    => (extracted.err = ErrPathTraversal
           <=> Contains(NormalizePath(extracted.filePath), DotDot))

\* C20: Archive.ExtractFile returns the path-traversal error exactly when
\* the requested path, as given, contains ".."; this covers every path whose
\* normalized form contains "..".  Every other path is handed to the format
\* handler, whose result is returned.
TraversalErrorIffPathHasDotDot ==
    extracted.err # NotCalled
    => /\ extracted.err = ErrPathTraversal <=> Contains(extracted.filePath, DotDot)
       /\ Contains(NormalizePath(extracted.filePath), DotDot)
             => Contains(extracted.filePath, DotDot)
       /\ ~Contains(extracted.filePath, DotDot)
             => LET r == FormatExtractFile(format, archive, extracted.filePath, password)
                IN  /\ extracted.err = r.err
                    /\ extracted.member = r.member
                    /\ extracted.size = r.size

DotDotRemovedByNormalizingRejected ==
    /\ extracted.filePath = <<"d", "/", ".", ".", "/", "a">>
    /\ NormalizePath(extracted.filePath) = <<"a">>
    /\ extracted.err = ErrPathTraversal
    /\ \E i \in 1..Len(archive) : archive[i].name = <<"a">>

\* C21 as stated: for every input p, NormalizePath(p) has no leading "/",
\* no ".." segment and no "." segment.
NormalizedHasNoDotSegments ==
    norm.called
    => LET segs == Segments(norm.out)
       IN  /\ ~HasPrefix(norm.out, <<Slash>>)
           /\ \A i \in 1..Len(segs) : segs[i] # DotDot /\ segs[i] # <<Dot>>

\* C21: for every input p, NormalizePath(p) has no leading "/" and no empty
\* segment; it has a "." segment only when it is "." itself, which is what
\* the empty path, "/" and every path that cleans to nothing give; and its
\* ".." segments are leading ones, left where p climbs above its start.
NormalizedIsCleanRelative ==
    norm.called
    => LET segs == Segments(norm.out)
       IN  /\ ~HasPrefix(norm.out, <<Slash>>)
           /\ \A i \in 1..Len(segs) :
                 /\ segs[i] = <<Dot>> => norm.out = <<Dot>>
                 /\ segs[i] = <<>> => norm.out = <<>>
                 /\ segs[i] = DotDot => \A j \in 1..i : segs[j] = DotDot

NormalizedKeepsLeadingDotDot ==
    /\ norm.called
    /\ norm.p = <<Dot, Dot, Slash, "a">>
    /\ norm.out = <<Dot, Dot, Slash, "a">>

\* C22: IsPasswordError is true of every error by which the library reports
\* a required or an incorrect password, the errors of Archive.GetInfo,
\* ListFiles and ExtractFile among them, and false of a file-not-found
\* error; IsNotFoundError is true of every error by which ExtractFile
\* reports a missing path and false of password errors.
HelpersRecognizeLibraryErrors ==
    /\ probe.result.err \in {ErrPasswordRequired, ErrPasswordIncorrect}
          => IsPasswordError(probe.result.err) /\ ~IsNotFoundError(probe.result.err)
    /\ extracted.err = ErrFileNotFound
          => IsNotFoundError(extracted.err) /\ ~IsPasswordError(extracted.err)

\* C23: Validate rejects every configuration that enables auth and has no
\* non-empty key in secret_key and api_keys together, so that a validated
\* configuration with auth enabled gives the authentication middleware at
\* least one key it accepts.
ValidatedAuthHasUsableKey ==
    (authc.pc = "serving" /\ authc.cfg.AuthEnabled)
    => /\ \/ authc.cfg.SecretKey # EmptyKey
          \/ \E i \in 1..Len(authc.cfg.APIKeys) : authc.cfg.APIKeys[i] # EmptyKey
       /\ \E key \in Keys : AuthVerdict(TRUE, authc.apiKeys, key) = "next"

\* C24: on one session of a forward-only archive (TAR or RAR), after any
\* sequence of ExtractFile calls, each call that names an existing entry has
\* succeeded and its stream yields the bytes of an entry of that name.
ForwardOnlyExtractInAnyOrder ==
    LET named == {i \in 1..Len(archive) : archive[i].name = extracted.filePath}
    IN  (format \in {"tar", "rar"} /\ extracted.err # NotCalled /\ named # {})
        => /\ extracted.err = NoError
           /\ extracted.member \in named
           /\ extracted.read = archive[extracted.member].size

\* C25: RangeReader.Close is idempotent and may run while ReadAt calls are
\* under way: once the reader is closed no fetch stays in flight, every
\* Close returns nil, a Close of a closed reader changes nothing, and every
\* ReadAt that starts after a Close fails without fetching.
RangeReaderCloseIdempotent ==
    /\ readerClosed => \A i \in 1..MaxReads : reads[i].state # "inflight"
    /\ \A i \in 1..MaxReads : reads[i].closed => reads[i].state = "refused"
    /\ \A k \in 1..Len(rclose.rets) : rclose.rets[k] = NoError
    /\ rclose.rets # <<>> => readerClosed
    /\ ~rclose.laterChanged

ClosedTwiceWithReadsAround ==
    /\ Len(rclose.rets) >= 2
    /\ \E i \in 1..MaxReads : reads[i].state = "aborted"
    /\ \E i \in 1..MaxReads : reads[i].closed /\ reads[i].state = "refused"

\* C26: every request to the three API routes passes the gates in the order
\* recovery, request-log, request-id, IP allow-list, CORS, rate-limit,
\* concurrency gate, authentication, handler, and stops at the gate that
\* rejects it; a request whose peer address is not on the allow-list takes no
\* rate-limit token and no concurrency slot, and a request that reaches
\* authentication has taken a token and a slot.
GatesInOrderRejectionStops ==
    LET p == chain.last
        order == << "recovery", "request-log", "request-id", "ip-allow-list", "cors",
                    "rate-limit", "concurrency", "authentication", "handler" >>
    IN  p # NoPassage =>
            /\ Len(p.reached) <= Len(order)
            /\ \A i \in 1..Len(p.reached) : p.reached[i] = order[i]
            /\ (p.answer # "next" <=> p.reached[Len(p.reached)] # "handler")
            /\ (~isIPAllowed(p.request.peer) => ~p.token /\ ~p.slot)
            /\ ((\E i \in 1..Len(p.reached) : p.reached[i] = "authentication")
                    => p.token /\ p.slot)

\* C27: DefaultConfig() has MaxFileSize 500*1024*1024, Timeout 30 s,
\* UserAgent "Stream-7z/1.0" and BufferSize 32 KiB, so a session made with
\* the default configuration refuses an archive larger than 500 MB.
DefaultConfigLimitsTo500MB ==
    /\ DefaultConfig.MaxFileSize = 500 * 1024 * 1024
    /\ DefaultConfig.Timeout = 30
    /\ DefaultConfig.UserAgent = "Stream-7z/1.0"
    /\ DefaultConfig.BufferSize = 32 * 1024
    /\ (sized.cfg = DefaultConfig /\ sized.size > 500 * 1024 * 1024
            => sized.pc \in {"idle", "new", "refused"})

\* C29: format detection is deterministic: for the same leading bytes and
\* the same extension every detection selects the same handler, also when the
\* bytes satisfy more than one Detect predicate and the extension matches no
\* handler.
DetectionIsDeterministic ==
    \A i, j \in 1..Len(det.formats) : det.formats[i] = det.formats[j]

\* C30: every 200 response of /api/info carries in format the name of the
\* handler that produced the metadata, never the empty string, whatever the
\* origin does after the metadata was read.
InfoFormatNamesHandler ==
    iresp.code = "OK" => iresp.format # EmptyFormat /\ iresp.format = iresp.handler

\* C28: a session made by NewArchiveWithTimeout is usable: as long as the
\* timeout has not elapsed and the session is not closed, a range read of
\* the session is not refused on account of a cancelled context.
TimeoutSessionIsUsable ==
    sessionKind = "NewArchiveWithTimeout" =>
        \A i \in 1..MaxReads :
            reads[i].state = "refused" => reads[i].closed \/ reads[i].expired

====
